---- MODULE Spec2Model ----
(***************************************************************************)
(* The expression engine of DataCharts: ExpressionParser                   *)
(* (shared/algorithms/function_parser.py), FunctionLibrary                 *)
(* (shared/algorithms/function_library.py), SafeExecutionEnvironment       *)
(* (shared/algorithms/safe_executor.py) and FunctionProcessor              *)
(* (backend/app/core/function_processor.py).                               *)
(*                                                                         *)
(* Texts and names are sequences of one-character strings, so that the     *)
(* regular expressions, substring tests, prefix tests and digit            *)
(* conversions of the code are computed character by character.            *)
(***************************************************************************)
EXTENDS Integers, Sequences, FiniteSets, TLC

VARIABLES
    text,       \* the expression text handed to the parser and the safety validator
    parsed,     \* what ExpressionParser.parse_expression did with text
    safety,     \* what SafeExecutionEnvironment.validate_expression_safety reported
    syntax,     \* what the two validate_syntax methods did with text
    df,         \* the content of the DataSource the evaluator is given
    call,       \* the last operation of the evaluator on df: its inputs and its outcome
    registry,   \* the class attributes of FunctionLibrary: the four tables
    has_sigalrm,\* hasattr(signal, 'SIGALRM') on the platform of the process
    now,        \* time.time(), in time units
    sigalrm,    \* the process's SIGALRM: the Python handler, the alarm, a signal not yet handled
    start_time, \* the start_time of timeout_handler, per place where it is kept
    threads,    \* per thread: where it is in execute_expression, and the evaluation it runs
    access      \* which threads read and which wrote each place shared by the process

textVars == <<text, parsed, safety, syntax>>
dataVars == <<df, call, registry>>
evalVars == <<has_sigalrm, now, sigalrm, start_time, threads, access>>
vars == <<text, parsed, safety, syntax, df, call, registry, has_sigalrm, now, sigalrm, start_time, threads, access>>

None == [kind |-> "none"]
NoCall == [op |-> "none"]

(***************************************************************************)
(* Characters                                                              *)
(***************************************************************************)
UpperLetters == <<"A","B","C","D","E","F","G","H","I","J","K","L","M",
                  "N","O","P","Q","R","S","T","U","V","W","X","Y","Z">>
LowerLetters == <<"a","b","c","d","e","f","g","h","i","j","k","l","m",
                  "n","o","p","q","r","s","t","u","v","w","x","y","z">>
Digits == <<"0","1","2","3","4","5","6","7","8","9">>

Range(s) == {s[i] : i \in DOMAIN s}

UpperSet == Range(UpperLetters)
LowerSet == Range(LowerLetters)
DigitSet == Range(Digits)

IsUpper(c) == c \in UpperSet
IsLower(c) == c \in LowerSet
IsDigit(c) == c \in DigitSet
IsLetter(c) == IsUpper(c) \/ IsLower(c)
\* \w of the re module
IsWordChar(c) == IsLetter(c) \/ IsDigit(c) \/ c = "_"
\* \s of the re module
IsSpace(c) == c \in {" ", "\t", "\n"}

\* the case folding of re.IGNORECASE, one character
LowerChar(c) ==
    IF IsUpper(c)
    THEN LowerLetters[CHOOSE i \in DOMAIN UpperLetters : UpperLetters[i] = c]
    ELSE c

Rep(c, n) == [i \in 1..n |-> c]

\* t[i..i+Len(w)-1] = w, compared exactly
MatchAt(t, i, w) ==
    /\ i >= 1
    /\ i + Len(w) - 1 <= Len(t)
    /\ \A k \in 1..Len(w) : t[i + k - 1] = w[k]

\* the same comparison under re.IGNORECASE (w is lower case)
MatchAtIgnoreCase(t, i, w) ==
    /\ i >= 1
    /\ i + Len(w) - 1 <= Len(t)
    /\ \A k \in 1..Len(w) : LowerChar(t[i + k - 1]) = w[k]

\* Python's `w in t` for strings
Contains(t, w) == \E i \in 1..(Len(t) + 1) : MatchAt(t, i, w)

\* t.count(c) for a single character
CountChar(t, c) == Cardinality({i \in DOMAIN t : t[i] = c})

(***************************************************************************)
(* ExpressionParser: the safety gate                                       *)
(***************************************************************************)
w_import    == <<"i","m","p","o","r","t">>
w_exec      == <<"e","x","e","c">>
w_eval      == <<"e","v","a","l">>
w_open      == <<"o","p","e","n">>
w_file      == <<"f","i","l","e">>
w_input     == <<"i","n","p","u","t">>
w_raw_input == <<"r","a","w","_","i","n","p","u","t">>
w_dunder    == <<"_","_">>

\* self.dangerous_patterns, in the order of the list; shape names the regex:
\*   "dunder"  __\w+__      "spaces"  word\s+      "call"  word\s*\(
dangerous_patterns ==
    << [shape |-> "dunder", word |-> w_dunder],
       [shape |-> "spaces", word |-> w_import],
       [shape |-> "call",   word |-> w_exec],
       [shape |-> "call",   word |-> w_eval],
       [shape |-> "call",   word |-> w_open],
       [shape |-> "call",   word |-> w_file],
       [shape |-> "call",   word |-> w_input],
       [shape |-> "call",   word |-> w_raw_input] >>

\* re.search(pattern, t, re.IGNORECASE)
ReSearch(p, t) ==
    CASE p.shape = "dunder" ->
            \E i \in 1..Len(t) :
                /\ MatchAt(t, i, w_dunder)
                /\ \E j \in (i + 3)..(Len(t) - 1) :
                      /\ MatchAt(t, j, w_dunder)
                      /\ \A k \in (i + 2)..(j - 1) : IsWordChar(t[k])
      [] p.shape = "spaces" ->
            \E i \in 1..Len(t) :
                /\ MatchAtIgnoreCase(t, i, p.word)
                /\ i + Len(p.word) <= Len(t)
                /\ IsSpace(t[i + Len(p.word)])
      [] p.shape = "call" ->
            \E i \in 1..Len(t) :
                /\ MatchAtIgnoreCase(t, i, p.word)
                /\ \E j \in (i + Len(p.word))..Len(t) :
                      /\ t[j] = "("
                      /\ \A k \in (i + Len(p.word))..(j - 1) : IsSpace(t[k])

MatchesDangerousPattern(t) ==
    \E n \in DOMAIN dangerous_patterns : ReSearch(dangerous_patterns[n], t)

\* The loop of _get_nesting_depth over t[lo..hi], started with depth = 0 and
\* max_depth = 0: [depth, max_depth] after the last character. Two consecutive
\* stretches of the loop compose (the second one runs shifted by the first one's
\* depth), which computes the loop over a long text without deep recursion.
RECURSIVE NestingScan(_, _, _)
NestingScan(t, lo, hi) ==
    IF lo > hi THEN [depth |-> 0, max_depth |-> 0]
    ELSE IF lo = hi
         THEN IF t[lo] = "(" THEN [depth |-> 1, max_depth |-> 1]
              ELSE IF t[lo] = ")" THEN [depth |-> -1, max_depth |-> 0]
              ELSE [depth |-> 0, max_depth |-> 0]
         ELSE LET mid == (lo + hi) \div 2
                  a == NestingScan(t, lo, mid)
                  b == NestingScan(t, mid + 1, hi)
                  shifted == IF b.max_depth > 0 THEN a.depth + b.max_depth ELSE 0
              IN  [depth |-> a.depth + b.depth,
                   max_depth |-> IF shifted > a.max_depth THEN shifted ELSE a.max_depth]

GetNestingDepth(t) == NestingScan(t, 1, Len(t)).max_depth

MaxExpressionLength == 1000
MaxNestingDepth == 10

\* _is_expression_safe with both limits compared by >= instead of >
IsExpressionSafe_LimitsExcluded(t) ==
    IF MatchesDangerousPattern(t) THEN FALSE
    ELSE IF Len(t) >= MaxExpressionLength THEN FALSE
    ELSE IF GetNestingDepth(t) >= MaxNestingDepth THEN FALSE
    ELSE TRUE

IsExpressionSafe(t) ==
    IF MatchesDangerousPattern(t) THEN FALSE
    ELSE IF Len(t) > MaxExpressionLength THEN FALSE
    ELSE IF GetNestingDepth(t) > MaxNestingDepth THEN FALSE
    ELSE TRUE


(***************************************************************************)
(* SafeExecutionEnvironment.validate_expression_safety                     *)
(***************************************************************************)
\* self.forbidden_builtins, in the order of the list
forbidden_builtins ==
    << w_eval, w_exec,
       <<"c","o","m","p","i","l","e">>,
       <<"_","_","i","m","p","o","r","t","_","_">>,
       w_open, w_file, w_input, w_raw_input,
       <<"r","e","l","o","a","d">>,
       <<"v","a","r","s">>,
       <<"g","l","o","b","a","l","s">>,
       <<"l","o","c","a","l","s">>,
       <<"d","i","r">>,
       <<"h","a","s","a","t","t","r">>,
       <<"g","e","t","a","t","t","r">>,
       <<"s","e","t","a","t","t","r">>,
       <<"d","e","l","a","t","t","r">>,
       <<"c","a","l","l","a","b","l","e">> >>

\* the local list dangerous_patterns of validate_expression_safety
safety_patterns ==
    << w_dunder, w_import, <<"w","h","i","l","e">>, <<"f","o","r">> >>

LongExpressionLength == 500
ManyParentheses == 20

\* SelectSeq over a sequence of words: the words of ws that occur in t, in order
OccurringIn(ws, t) == SelectSeq(ws, LAMBDA w : Contains(t, w))

\* validate_expression_safety with the warnings looked at before the issues
validate_expression_safety_WarningsFirst(t) ==
    LET issues == OccurringIn(forbidden_builtins, t) \o OccurringIn(safety_patterns, t)
        warnings == (IF Len(t) > LongExpressionLength THEN <<"too_long">> ELSE <<>>)
                    \o (IF CountChar(t, "(") > ManyParentheses THEN <<"too_nested">> ELSE <<>>)
    IN  [kind |-> "report", is_safe |-> (issues = <<>>), issues |-> issues,
         warnings |-> warnings,
         risk_level |-> IF warnings # <<>> THEN "medium"
                        ELSE IF issues # <<>> THEN "high" ELSE "low"]

validate_expression_safety(t) ==
    LET issues == [forbidden |-> OccurringIn(forbidden_builtins, t),
                   pattern   |-> OccurringIn(safety_patterns, t)]
        n_issues == Len(issues.forbidden) + Len(issues.pattern)
        warnings == (IF Len(t) > LongExpressionLength THEN <<"too_long">> ELSE <<>>)
                    \o (IF CountChar(t, "(") > ManyParentheses THEN <<"too_nested">> ELSE <<>>)
    IN  [kind |-> "report",
         is_safe |-> (n_issues = 0),
         issues |-> issues.forbidden \o issues.pattern,
         warnings |-> warnings,
         risk_level |-> IF n_issues # 0 THEN "high"
                        ELSE IF warnings # <<>> THEN "medium" ELSE "low"]


(***************************************************************************)
(* sympy.sympify, as parse_expression uses it (function_parser.py:60).     *)
(* The text is tokenised and parsed character by character for the         *)
(* grammar                                                                 *)
(*     expr  ::= term ("+" term)*                                          *)
(*     term  ::= power ("*" power)*                                        *)
(*     power ::= atom ("**" power)?                                        *)
(*     atom  ::= NUMBER | NAME | NAME "(" expr ")" | "(" expr ")"          *)
(* with blanks between tokens. What the code reads of the parsed           *)
(* expression is its free symbols and the class name of every node, so     *)
(* the value of a parse is [obj, raised, syms, nodes, calls, names]: obj    *)
(* says that the text evaluated to a Python object that is no sympy        *)
(* expression (a function class such as sin, a builtin such as eval),      *)
(* raised that evaluating it raised; calls are the names the text calls    *)
(* and names all the names it mentions, as written.                        *)
(***************************************************************************)
n_x == <<"x">>
n_y == <<"y">>
n_mean == <<"m","e","a","n">>
n_pi == <<"p","i">>
n_e == <<"e">>
n_I == <<"I">>
n_abs == <<"a","b","s">>
n_Abs == <<"A","b","s">>
n_sqrt == <<"s","q","r","t">>
n_var == <<"v","a","r">>

\* names that `from sympy import *` binds to function classes
SympyFunctionNames ==
    {<<"s","i","n">>,
     <<"c","o","s">>,
     <<"t","a","n">>,
     <<"l","o","g">>,
     <<"e","x","p">>,
     <<"s","q","r","t">>,
     <<"A","b","s">>,
     <<"f","l","o","o","r">>,
     n_var}
\* names sympify resolves to Python builtin functions
PyBuiltinNames ==
    {<<"a","b","s">>,
     <<"r","o","u","n","d">>,
     <<"s","u","m">>,
     <<"l","e","n">>,
     <<"e","v","a","l">>,
     <<"e","x","e","c">>,
     <<"o","p","e","n">>,
     <<"i","n","p","u","t">>}
\* Python keywords: a syntax error wherever an expression is expected
PyKeywords ==
    {<<"i","m","p","o","r","t">>,
     <<"f","o","r">>,
     <<"w","h","i","l","e">>,
     <<"i","f">>,
     <<"i","n">>,
     <<"i","s">>,
     <<"n","o","t">>,
     <<"a","n","d">>,
     <<"o","r">>,
     <<"l","a","m","b","d","a">>}
\* names `from sympy import *` binds to constants
SympyConstants == {n_pi, n_I}

EmptyVal == [obj |-> FALSE, raised |-> FALSE, syms |-> {}, nodes |-> {}, calls |-> {},
             names |-> {}, tree |-> [op |-> "empty"]]
Fail == [ok |-> FALSE, pos |-> 0, val |-> EmptyVal]
Ok(pos, val) == [ok |-> TRUE, pos |-> pos, val |-> val]

\* the first position from i on that holds no blank (Len(t)+1 at the end)
SkipSpaces(t, i) ==
    CHOOSE j \in i..(Len(t) + 1) :
        /\ (j = Len(t) + 1 \/ t[j] # " ")
        /\ \A k \in i..(j - 1) : t[k] = " "

\* the first position from i on that holds no word character
WordEnd(t, i) ==
    CHOOSE j \in i..(Len(t) + 1) :
        /\ (j = Len(t) + 1 \/ ~IsWordChar(t[j]))
        /\ \A k \in i..(j - 1) : IsWordChar(t[k])

\* the first position from i on that holds no digit
NumberEnd(t, i) ==
    CHOOSE j \in i..(Len(t) + 1) :
        /\ (j = Len(t) + 1 \/ ~IsDigit(t[j]))
        /\ \A k \in i..(j - 1) : IsDigit(t[k])

DigitValue(c) == (CHOOSE i \in DOMAIN Digits : Digits[i] = c) - 1

\* int(ds) for a string of decimal digits
RECURSIVE ToInt(_)
ToInt(ds) ==
    IF ds = <<>> THEN 0
    ELSE 10 * ToInt(SubSeq(ds, 1, Len(ds) - 1)) + DigitValue(ds[Len(ds)])

\* the syntax tree of a name, of an integer literal, of name(arg) and of a
\* binary operation
NameTree(name) == [op |-> "name", name |-> name]
NumberTree(digits) == [op |-> "num", value |-> ToInt(digits)]
CallTree(name, arg) == [op |-> "call", name |-> name, arg |-> arg]
BinaryTree(op, a, b) == [op |-> op, a |-> a, b |-> b]

\* a name that is not called
NameValue(name) ==
    IF name \in SympyConstants
    THEN [EmptyVal EXCEPT !.nodes = {name}, !.names = {name}, !.tree = NameTree(name)]
    ELSE IF name \in SympyFunctionNames \cup PyBuiltinNames
         THEN [EmptyVal EXCEPT !.obj = TRUE, !.names = {name}, !.tree = NameTree(name)]
    ELSE [EmptyVal EXCEPT !.syms = {name}, !.names = {name},
                          !.nodes = {<<"S","y","m","b","o","l">>},
                          !.tree = NameTree(name)]

\* name(arg): TRUE when the call raises. Of the builtins only abs accepts a
\* sympy expression (round and sum raise TypeError on a symbolic one), and
\* sympy's var iterates over its argument
CallFails(name, arg) ==
    \/ arg.obj
    \/ name \in SympyConstants
    \/ name \in PyBuiltinNames \ {n_abs}
    \/ name = n_var

\* name(arg): an undefined name makes an applied undefined function whose
\* class is named after it
CallValue(name, arg) ==
    [obj |-> FALSE,
     raised |-> arg.raised \/ CallFails(name, arg),
     syms |-> arg.syms,
     nodes |-> arg.nodes \cup
               {IF name = n_abs THEN n_Abs
                ELSE IF name = n_sqrt THEN <<"P","o","w">>
                ELSE name},
     calls |-> arg.calls \cup {name},
     names |-> arg.names \cup {name},
     tree |-> CallTree(name, arg.tree)]

\* a binary operation of the class named op: an operand that is no sympy
\* expression raises
BinaryValue(op, a, b) ==
    [obj |-> FALSE,
     raised |-> a.raised \/ b.raised \/ a.obj \/ b.obj,
     syms |-> a.syms \cup b.syms,
     nodes |-> a.nodes \cup b.nodes \cup {op},
     calls |-> a.calls \cup b.calls,
     names |-> a.names \cup b.names,
     tree |-> BinaryTree(op, a.tree, b.tree)]

\* the token an atom starts with, from position i on: its kind, the name (of a
\* "name" or a "call"), and the position after it (after the "(" of a "call"
\* or a "paren")
LexAtom(t, i) ==
    LET i0 == SkipSpaces(t, i)
        bad == [kind |-> "bad", name |-> <<>>, next |-> 0]
    IN  IF i0 > Len(t) THEN bad
        ELSE IF IsDigit(t[i0])
        THEN LET j == NumberEnd(t, i0) IN
             IF j <= Len(t) /\ IsWordChar(t[j]) THEN bad
             ELSE [kind |-> "number", name |-> SubSeq(t, i0, j - 1), next |-> j]
        ELSE IF IsWordChar(t[i0])
        THEN LET j == WordEnd(t, i0)
                 k == SkipSpaces(t, j)
             IN  IF SubSeq(t, i0, j - 1) \in PyKeywords THEN bad
                 ELSE IF k <= Len(t) /\ t[k] = "("
                 THEN [kind |-> "call", name |-> SubSeq(t, i0, j - 1), next |-> k + 1]
                 ELSE [kind |-> "name", name |-> SubSeq(t, i0, j - 1), next |-> j]
        ELSE IF t[i0] = "(" THEN [kind |-> "paren", name |-> <<>>, next |-> i0 + 1]
        ELSE bad

\* the atom that lex opened with "(", given the parse a of what follows the "("
CloseAtom(t, lex, a) ==
    LET c == IF a.ok THEN SkipSpaces(t, a.pos) ELSE 0 IN
    IF ~a.ok \/ c > Len(t) THEN Fail
    ELSE IF t[c] # ")" THEN Fail
    ELSE IF lex.kind = "paren" THEN Ok(c + 1, a.val)
    ELSE Ok(c + 1, CallValue(lex.name, a.val))

\* a op b, given both parses
Combine(op, a, b) ==
    IF ~b.ok THEN Fail
    ELSE Ok(b.pos, BinaryValue(op, a.val, b.val))

IsStarAt(t, k) == k <= Len(t) /\ t[k] = "*" /\ ~MatchAt(t, k, <<"*","*">>)

RECURSIVE ParseExpr(_, _), ExprRest(_, _), ParseTerm(_, _), TermRest(_, _),
          ParsePower(_, _), PowerRest(_, _), ParseLexed(_, _)

ParseLexed(t, lex) ==
    IF lex.kind \in {"call", "paren"} THEN CloseAtom(t, lex, ParseExpr(t, lex.next))
    ELSE IF lex.kind = "number"
    THEN Ok(lex.next, [EmptyVal EXCEPT !.nodes = {<<"I","n","t","e","g","e","r">>},
                                       !.tree = NumberTree(lex.name)])
    ELSE IF lex.kind = "name" THEN Ok(lex.next, NameValue(lex.name))
    ELSE Fail

PowerRest(t, a) ==
    IF ~a.ok THEN Fail
    ELSE IF MatchAt(t, SkipSpaces(t, a.pos), <<"*","*">>)
    THEN Combine(<<"P","o","w">>, a, ParsePower(t, SkipSpaces(t, a.pos) + 2))
    ELSE a

ParsePower(t, i) == PowerRest(t, ParseLexed(t, LexAtom(t, i)))

TermRest(t, a) ==
    IF ~a.ok THEN Fail
    ELSE IF IsStarAt(t, SkipSpaces(t, a.pos))
    THEN TermRest(t, Combine(<<"M","u","l">>, a, ParsePower(t, SkipSpaces(t, a.pos) + 1)))
    ELSE a

ParseTerm(t, i) == TermRest(t, ParsePower(t, i))

ExprRest(t, a) ==
    IF ~a.ok THEN Fail
    ELSE IF SkipSpaces(t, a.pos) <= Len(t) /\ t[SkipSpaces(t, a.pos)] = "+"
    THEN ExprRest(t, Combine(<<"A","d","d">>, a, ParseTerm(t, SkipSpaces(t, a.pos) + 1)))
    ELSE a

ParseExpr(t, i) == ExprRest(t, ParseTerm(t, i))

\* the text as Python's tokenizer and grammar read it: ok = FALSE is a
\* SyntaxError
PyParse(t) ==
    LET r == ParseExpr(t, 1) IN
    IF r.ok /\ SkipSpaces(t, r.pos) > Len(t) THEN [ok |-> TRUE, val |-> r.val]
    ELSE [ok |-> FALSE, val |-> EmptyVal]

\* sp.sympify(t): ok = FALSE when it raises, on a syntax error or while the
\* parsed text is evaluated to a sympy expression
Sympify(t) ==
    LET r == PyParse(t) IN
    IF r.ok /\ ~r.val.raised THEN r ELSE [ok |-> FALSE, val |-> EmptyVal]

(***************************************************************************)
(* FunctionLibrary: the four category tables, their keys in source order   *)
(***************************************************************************)
MATH_FUNCTIONS ==
    << <<"s","i","n">>,
       <<"c","o","s">>,
       <<"t","a","n">>,
       <<"l","o","g">>,
       <<"e","x","p">>,
       <<"s","q","r","t">>,
       <<"a","b","s">>,
       <<"f","l","o","o","r">>,
       <<"c","e","i","l">>,
       <<"r","o","u","n","d">>,
       <<"p","i">>,
       <<"e">> >>
STATISTICAL_FUNCTIONS ==
    << <<"m","e","a","n">>,
       <<"s","t","d">>,
       <<"v","a","r">>,
       <<"m","e","d","i","a","n">>,
       <<"m","i","n">>,
       <<"m","a","x">>,
       <<"s","u","m">>,
       <<"c","o","u","n","t">>,
       <<"q","u","a","n","t","i","l","e">> >>
TRANSFORM_FUNCTIONS ==
    << <<"n","o","r","m","a","l","i","z","e">>,
       <<"s","t","a","n","d","a","r","d","i","z","e">>,
       <<"s","c","a","l","e">>,
       <<"l","o","g","_","t","r","a","n","s","f","o","r","m">>,
       <<"p","o","w","e","r","_","t","r","a","n","s","f","o","r","m">> >>
FILTER_FUNCTIONS ==
    << <<"m","o","v","i","n","g","_","a","v","e","r","a","g","e">>,
       <<"g","a","u","s","s","i","a","n","_","f","i","l","t","e","r">>,
       <<"m","e","d","i","a","n","_","f","i","l","t","e","r">>,
       <<"r","o","l","l","i","n","g","_","s","u","m">> >>

\* dict.update(more): the keys of d, then the keys of more that d lacks
UpdateKeys(d, more) == d \o SelectSeq(more, LAMBDA k : k \notin Range(d))

\* the keys of get_all_functions(), in insertion order
get_supported_function_names ==
    UpdateKeys(UpdateKeys(UpdateKeys(UpdateKeys(<<>>, MATH_FUNCTIONS),
        STATISTICAL_FUNCTIONS), TRANSFORM_FUNCTIONS), FILTER_FUNCTIONS)

SupportedNames == Range(get_supported_function_names)

\* is_function_supported comparing without regard to case
is_function_supported_IgnoreCase(name) ==
    [i \in DOMAIN name |-> LowerChar(name[i])] \in SupportedNames
\* func_name in cls.get_supported_function_names()
is_function_supported(name) == name \in SupportedNames

\* get_function_categories without its last entry
get_function_categories_ThreeOnly ==
    << [name |-> "math", functions |-> MATH_FUNCTIONS],
       [name |-> "statistical", functions |-> STATISTICAL_FUNCTIONS],
       [name |-> "transform", functions |-> TRANSFORM_FUNCTIONS] >>

\* get_function_categories(): the dict from the four category names to the
\* keys of the four tables, in insertion order
get_function_categories ==
    << [name |-> "math", functions |-> MATH_FUNCTIONS],
       [name |-> "statistical", functions |-> STATISTICAL_FUNCTIONS],
       [name |-> "transform", functions |-> TRANSFORM_FUNCTIONS],
       [name |-> "filter", functions |-> FILTER_FUNCTIONS] >>

\* the loop of get_function_info: the first category that lists the name
CategoryOf(func_name) ==
    LET listing == SelectSeq(get_function_categories,
                             LAMBDA cat : func_name \in Range(cat.functions))
    IN  IF listing = <<>> THEN "None" ELSE listing[1].name

\* FunctionLibrary.get_function_info: get_function raises KeyError for a
\* name that get_all_functions() lacks
get_function_info(func_name) ==
    IF func_name \notin Range(get_supported_function_names)
    THEN [kind |-> "raised", class |-> "KeyError"]
    ELSE [kind |-> "info", name |-> func_name, category |-> CategoryOf(func_name),
          is_available |-> TRUE]

\* FunctionProcessor.get_function_info: the dict of its except KeyError
processor_get_function_info(func_name) ==
    IF get_function_info(func_name).kind = "raised"
    THEN [kind |-> "info", name |-> func_name, category |-> "None",
          is_available |-> FALSE]
    ELSE get_function_info(func_name)

(***************************************************************************)
(* Ordering of names: Python compares strings by code point                *)
(***************************************************************************)
CodePointOrder == Digits \o UpperLetters \o <<"_">> \o LowerLetters

CodePointRank(c) == CHOOSE i \in DOMAIN CodePointOrder : CodePointOrder[i] = c

\* a < b for strings of word characters
StrLess(a, b) ==
    \E k \in 1..(Len(a) + 1) :
        /\ k <= Len(b)
        /\ \A m \in 1..(k - 1) : a[m] = b[m]
        /\ (k = Len(a) + 1 \/ CodePointRank(a[k]) < CodePointRank(b[k]))

\* sorted(S) for a set of distinct names
RECURSIVE Sorted(_)
Sorted(S) ==
    IF S = {} THEN <<>>
    ELSE LET m == CHOOSE a \in S : \A b \in S \ {a} : StrLess(a, b)
         IN  <<m>> \o Sorted(S \ {m})


(***************************************************************************)
(* ExpressionParser.parse_expression                                       *)
(***************************************************************************)
\* \b of the re module at position i (between t[i-1] and t[i])
WordBoundary(t, i) ==
    LET before == i > 1 /\ IsWordChar(t[i - 1])
        after == i <= Len(t) /\ IsWordChar(t[i])
    IN  before # after

\* where a match of \b\d+\.?\d*\b that starts at i ends (exclusive); 0 for no match
NumberMatchEnd(t, i) ==
    IF ~(i <= Len(t) /\ IsDigit(t[i]) /\ WordBoundary(t, i)) THEN 0
    ELSE LET d1 == NumberEnd(t, i)
             dotted == d1 <= Len(t) /\ t[d1] = "."
             d2 == IF dotted THEN NumberEnd(t, d1 + 1) ELSE d1
         IN  IF dotted /\ WordBoundary(t, d2) THEN d2
             ELSE IF dotted /\ d2 > d1 + 1 THEN d1 + 1
             ELSE IF WordBoundary(t, d1) THEN d1
             ELSE 0

\* re.findall(r'\b\d+\.?\d*\b', t) from position i on
RECURSIVE FindNumbers(_, _)
FindNumbers(t, i) ==
    LET starts == {j \in i..Len(t) : NumberMatchEnd(t, j) # 0} IN
    IF starts = {} THEN <<>>
    ELSE LET j == CHOOSE a \in starts : \A b \in starts : a <= b
         IN  <<SubSeq(t, j, NumberMatchEnd(t, j) - 1)>> \o FindNumbers(t, NumberMatchEnd(t, j))

\* _extract_parameters: const_<i> |-> the i-th literal (1-based here), an int
\* when the literal has no point and otherwise the literal itself as a float
extract_parameters(t) ==
    LET numbers == FindNumbers(t, 1) IN
    [i \in DOMAIN numbers |->
        IF "." \in Range(numbers[i])
        THEN [float |-> numbers[i]]
        ELSE [int |-> ToInt(numbers[i])]]

ReservedConstants == {n_pi, n_e, n_I}

\* _extract_variables without its filter
extract_variables_Unfiltered(val) ==
    IF val.obj THEN <<>> ELSE Sorted(val.syms)

\* _extract_variables: an object that is no sympy expression has no
\* free_symbols to iterate, and the except clause returns []
extract_variables(val) ==
    IF val.obj THEN <<>>
    ELSE Sorted({v \in val.syms : v \notin ReservedConstants /\ ~is_function_supported(v)})

\* the class names _extract_functions maps to function names
MappedClassNames ==
    { <<"s","i","n">>, <<"c","o","s">>, <<"t","a","n">>, <<"l","o","g">>,
      <<"e","x","p">>, n_sqrt, n_Abs }

\* _extract_functions: every node of a sympy expression has .func.__name__,
\* so only the first branch of the loop body is ever taken
extract_functions(val) ==
    {IF c = n_Abs THEN n_abs ELSE c : c \in val.nodes \cap MappedClassNames}

\* _validate_functions: the unsupported names (it raises when there are any)
unsupported_functions(functions_used) ==
    {f \in functions_used : ~is_function_supported(f)}

ParseError(message) == [kind |-> "FunctionParseError", message |-> message]

\* parse_expression keeping the text as sympy prints it, without blanks
parse_expression_Reprinted(t) ==
    IF ~IsExpressionSafe(t) THEN ParseError("unsafe")
    ELSE LET sy == Sympify(t) IN
         IF ~sy.ok THEN ParseError("syntax")
         ELSE LET functions_used == extract_functions(sy.val) IN
              IF unsupported_functions(functions_used) # {} THEN ParseError("unsupported")
              ELSE [kind |-> "FunctionExpression",
                    expression |-> SelectSeq(t, LAMBDA c : c # " "),
                    variables |-> extract_variables(sy.val),
                    parameters |-> extract_parameters(t),
                    functions_used |-> functions_used]

\* ExpressionParser.parse_expression; FunctionProcessor.parse_expression wraps
\* its FunctionParseError in another FunctionParseError
parse_expression(t) ==
    IF ~IsExpressionSafe(t) THEN ParseError("unsafe")
    ELSE LET sy == Sympify(t) IN
         IF ~sy.ok THEN ParseError("syntax")
         ELSE LET functions_used == extract_functions(sy.val) IN
              IF unsupported_functions(functions_used) # {} THEN ParseError("unsupported")
              ELSE [kind |-> "FunctionExpression",
                    expression |-> t,
                    variables |-> extract_variables(sy.val),
                    parameters |-> extract_parameters(t),
                    functions_used |-> functions_used]


(***************************************************************************)
(* Tables: the pandas DataFrame in DataSource.content. A table has its     *)
(* column labels, its row index and, per column, the values of its rows.   *)
(***************************************************************************)
MaxColumns == 2
MaxRows == 2

n_index == <<"i","n","d","e","x">>
n_col_0 == <<"c","o","l","_","0">>
n_col_1 == <<"c","o","l","_","1">>
n_col_ == <<"c","o","l","_">>
n_np == <<"n","p">>
n_pd == <<"p","d">>
n_builtins == <<"_","_","b","u","i","l","t","i","n","s","_","_">>
n_inf == <<"i","n","f">>
n_nan == <<"n","a","n">>

ColumnNames == {n_x, n_index, n_col_1}

\* sequences of distinct elements of S, of length at most n
DistinctSeqs(S, n) ==
    UNION { {q \in [1..k -> S] : \A i, j \in 1..k : i # j => q[i] # q[j]} : k \in 0..n }

\* sequences of elements of S, of length at most n
SeqsUpTo(S, n) == UNION { [1..k -> S] : k \in 0..n }

\* the value in row r of the c-th column, and the label of row r when the
\* index is not the default 0, 1, ...
CellValue(c, r) == 10 * c + r
CustomLabel(r) == 100 + r

DataFrame(columns, rows, custom) ==
    [kind |-> "DataFrame",
     columns |-> columns,
     index |-> [r \in 1..rows |-> IF custom THEN CustomLabel(r) ELSE r - 1],
     cells |-> [c \in 1..Len(columns) |-> [r \in 1..rows |-> CellValue(c, r)]]]

Tables ==
    { DataFrame(columns, rows, custom) :
        columns \in DistinctSeqs(ColumnNames, MaxColumns),
        rows \in 0..MaxRows,
        custom \in BOOLEAN }

\* a DataSource whose content is no DataFrame (a dict, a list)
NotAFrame == [kind |-> "dict"]

\* len(df), and the position of a column label (df.columns.get_loc)
Rows(d) == Len(d.index)
ColumnPos(d, name) == CHOOSE c \in DOMAIN d.columns : d.columns[c] = name

\* Python values, by what the evaluator looks at: the type, the number of
\* dimensions, whether float() accepts the value, the elements, the row
\* labels of a Series, and the name of a module or function
Value(type, ndim, numeric, data, index, name) ==
    [type |-> type, ndim |-> ndim, numeric |-> numeric,
     data |-> data, index |-> index, name |-> name]

NdArray(data) == Value("ndarray", 1, TRUE, data, <<>>, <<>>)
Series(data, index) == Value("Series", 1, TRUE, data, index, <<>>)
PyList(data, ndim) == Value("list", ndim, TRUE, data, <<>>, <<>>)
PyTuple(data) == Value("tuple", 1, TRUE, data, <<>>, <<>>)
PyFloat == Value("float", 0, TRUE, <<>>, <<>>, <<>>)
PyStr == Value("str", 0, FALSE, <<>>, <<>>, <<>>)
Module(name) == Value("module", 0, FALSE, <<>>, <<>>, name)
PyFunction(name) == Value("function", 0, FALSE, <<>>, <<>>, name)
Constant(name) == Value("float", 0, TRUE, <<>>, <<>>, name)

(***************************************************************************)
(* SafeExecutionEnvironment._prepare_data_variables                        *)
(***************************************************************************)
StartsWith(name, prefix) == MatchAt(name, 1, prefix)

\* str.isdigit() for the characters of the model
IsDigits(w) == w # <<>> /\ \A i \in DOMAIN w : IsDigit(w[i])

\* the loop body with its first two tests in the other order
BoundValue_IndexFirst(d, var) ==
    IF var = n_index
    THEN {NdArray(d.index)}
    ELSE IF var \in Range(d.columns)
    THEN {NdArray(d.cells[ColumnPos(d, var)])}
    ELSE IF StartsWith(var, n_col_) /\ IsDigits(SubSeq(var, 5, Len(var)))
    THEN LET col_idx == ToInt(SubSeq(var, 5, Len(var))) IN
         IF 0 <= col_idx /\ col_idx < Len(d.columns)
         THEN {NdArray(d.cells[col_idx + 1])}
         ELSE {}
    ELSE {NdArray([r \in 1..Rows(d) |-> r - 1])}

\* what the loop body does for one variable: the entry it adds to data_vars,
\* as a set of at most one value
BoundValue(d, var) ==
    IF var \in Range(d.columns)
    THEN {NdArray(d.cells[ColumnPos(d, var)])}
    ELSE IF var = n_index
    THEN {NdArray(d.index)}
    ELSE IF StartsWith(var, n_col_) /\ IsDigits(SubSeq(var, 5, Len(var)))
    THEN LET col_idx == ToInt(SubSeq(var, 5, Len(var))) IN
         IF 0 <= col_idx /\ col_idx < Len(d.columns)
         THEN {NdArray(d.cells[col_idx + 1])}
         ELSE {}
    ELSE {NdArray([r \in 1..Rows(d) |-> r - 1])}

\* data_vars after the loop over variables: a dict from names to arrays
prepare_data_variables(d, variables) ==
    LET keys == {v \in Range(variables) : BoundValue(d, v) # {}} IN
    [v \in keys |-> CHOOSE a \in BoundValue(d, v) : TRUE]


(***************************************************************************)
(* SafeExecutionEnvironment.create_safe_namespace: a dict, built by        *)
(* successive dict.update calls, each of which overrides the entries       *)
(* before it.                                                              *)
(***************************************************************************)
allowed_builtins ==
    {<<"a","b","s">>, <<"r","o","u","n","d">>, <<"m","i","n">>, <<"m","a","x">>, <<"s","u","m">>, <<"l","e","n">>, <<"r","a","n","g","e">>, <<"e","n","u","m","e","r","a","t","e">>, <<"z","i","p">>,
     <<"b","o","o","l">>, <<"i","n","t">>, <<"f","l","o","a","t">>, <<"s","t","r">>, <<"l","i","s","t">>, <<"t","u","p","l","e">>, <<"d","i","c","t">>, <<"s","e","t">>}

\* dict.update: the entries of more replace and extend those of d
Update(d, more) ==
    [k \in DOMAIN d \cup DOMAIN more |-> IF k \in DOMAIN more THEN more[k] ELSE d[k]]

get_all_functions == [name \in SupportedNames |-> PyFunction(name)]

(***************************************************************************)
(* FunctionLibrary as an object of the process: the four class attributes  *)
(* are dicts, and a dict or list handed to a caller is either storage of   *)
(* its own or the storage of one of the four.                              *)
(***************************************************************************)
CategoryNames == <<"math", "statistical", "transform", "filter">>

\* a dict as the sequence of its entries, in insertion order
TableOf(keys) == [i \in DOMAIN keys |-> [key |-> keys[i], value |-> PyFunction(keys[i])]]
KeysOf(entries) == [i \in DOMAIN entries |-> entries[i].key]

\* the class attributes MATH_FUNCTIONS .. FILTER_FUNCTIONS as first loaded
FunctionLibrary ==
    [math |-> TableOf(MATH_FUNCTIONS), statistical |-> TableOf(STATISTICAL_FUNCTIONS),
     transform |-> TableOf(TRANSFORM_FUNCTIONS), filter |-> TableOf(FILTER_FUNCTIONS)]

\* a dict or list in the hands of a caller: its entries and whose storage
\* they are ("own", or the category of a table of the registry)
Container(entries, storage) == [entries |-> entries, storage |-> storage]

\* d[key] = value
SetItem(entries, key, value) ==
    IF \E i \in DOMAIN entries : entries[i].key = key
    THEN LET at == CHOOSE i \in DOMAIN entries : entries[i].key = key
         IN  SubSeq(entries, 1, at - 1) \o <<[key |-> key, value |-> value]>>
                \o SubSeq(entries, at + 1, Len(entries))
    ELSE Append(entries, [key |-> key, value |-> value])
\* del d[key], list.remove(key)
DelItem(entries, key) == SelectSeq(entries, LAMBDA en : en.key # key)

RECURSIVE UpdateEntries(_, _)
\* d.update(more)
UpdateEntries(entries, more) ==
    IF more = <<>> THEN entries
    ELSE UpdateEntries(SetItem(entries, more[1].key, more[1].value), Tail(more))

\* what writing the entries of a container does to the registry
Stored(reg, container) ==
    IF container.storage = "own" THEN reg
    ELSE [reg EXCEPT ![container.storage] = container.entries]

\* get_all_functions with the first table as its accumulator
AllFunctions_InPlace(reg) ==
    Container(UpdateEntries(UpdateEntries(UpdateEntries(UpdateEntries(reg.math,
        reg.math), reg.statistical), reg.transform), reg.filter), "math")
\* get_all_functions on the tables as they are: all_functions = {} and four
\* updates
AllFunctions(reg) ==
    Container(UpdateEntries(UpdateEntries(UpdateEntries(UpdateEntries(<<>>,
        reg.math), reg.statistical), reg.transform), reg.filter), "own")

\* list(d.keys()): a new list
ListOfKeys(entries) == Container([i \in DOMAIN entries |->
                            [key |-> entries[i].key, value |-> PyStr]], "own")

create_safe_namespace(data_vars) ==
    LET base == [k \in {n_builtins, n_np, n_pd} |->
                    IF k = n_builtins
                    THEN Value("dict", 0, FALSE, <<>>, <<>>, n_builtins)
                    ELSE Module(k)]
        constants == [k \in {n_pi, n_e, n_inf, n_nan} |-> Constant(k)]
    IN Update(Update(Update(base, get_all_functions), data_vars), constants)

(***************************************************************************)
(* SafeExecutionEnvironment._process_result                                *)
(***************************************************************************)
\* how a piece of code ends: it returns a value, or raises an exception of a
\* class with a message
Returned(value) == [raised |-> "none", message |-> "", value |-> value]
Raised(class, message) == [raised |-> class, message |-> message, value |-> PyStr]

process_result(result, original_df) ==
    IF result.type = "ndarray"
    THEN IF result.ndim = 0
         THEN IF result.numeric THEN Returned(PyFloat) ELSE Raised("ValueError", "could not convert string to float")
         ELSE IF result.ndim = 1
         THEN IF Len(result.data) = Rows(original_df)
              THEN Returned(Series(result.data, original_df.index))
              ELSE Returned(PyList(result.data, 1))
         ELSE Returned(PyList(result.data, result.ndim))
    ELSE IF result.type = "Series"
    THEN Returned(result)
    ELSE IF result.type \in {"int", "bool", "float", "complex"}
    THEN Returned(result)
    ELSE IF result.type \in {"list", "tuple"}
    THEN Returned(PyList(result.data, result.ndim))
    ELSE IF result.numeric THEN Returned(PyFloat) ELSE Returned(PyStr)


(***************************************************************************)
(* SafeExecutionEnvironment.execute_expression. The platform either has    *)
(* SIGALRM or not, and the caller is the main thread or another one. What  *)
(* the evaluation computes beyond integer arithmetic and mean is its       *)
(* fate: the value or fault it ends with; and whether it ends after the    *)
(* deadline.                                                               *)
(***************************************************************************)
Environments == [alarm : BOOLEAN, main_thread : BOOLEAN]

\* the names eval(expression, {"__builtins__": {}}, namespace) resolves: the
\* locals, the one global, and the (empty) builtins
ResolvableNames(namespace) == DOMAIN namespace \cup {n_builtins}

IsBareName(t) ==
    /\ t # <<>>
    /\ \A i \in DOMAIN t : IsWordChar(t[i])
    /\ ~IsDigit(t[1])

\* numbers with their values: an int keeps its value in data, a float its
\* numerator and denominator in lowest terms (nan is 0/0). An np.float64 is
\* a float: isinstance(np.float64(3.0), float) is True.
RECURSIVE GCD(_, _)
GCD(a, b) == IF b = 0 THEN a ELSE GCD(b, a % b)

PyInt(v) == Value("int", 0, TRUE, <<v>>, <<>>, <<>>)
Float64(n, d) ==
    IF d = 0 THEN Value("float", 0, TRUE, <<0, 0>>, <<>>, <<>>)
    ELSE Value("float", 0, TRUE, <<n \div GCD(n, d), d \div GCD(n, d)>>, <<>>, <<>>)

RECURSIVE SumOf(_)
SumOf(data) == IF data = <<>> THEN 0 ELSE data[1] + SumOf(Tail(data))

IsIntArray(v) == v.type = "ndarray" /\ v.ndim = 1 /\ v.numeric
IsIntValue(v) == v.type = "int" /\ Len(v.data) = 1
IsObject(v) == v.type \in {"function", "module", "dict", "str"}

\* a + b, a * b, a ** b on ints
IntOp(op, a, b) ==
    IF op = <<"A","d","d">> THEN a + b
    ELSE IF op = <<"M","u","l">> THEN a * b
    ELSE IF b = 0 THEN 1 ELSE a ^ b

\* the binary operators of Python and numpy on ints and one-dimensional int
\* arrays: arrays of one length combine element by element, an int or an
\* array of length one is broadcast; float arithmetic is left to fate
BinaryResult(op, a, b, fate) ==
    IF a.raised # "none" THEN a
    ELSE IF b.raised # "none" THEN b
    ELSE IF IsObject(a.value) \/ IsObject(b.value)
    THEN Raised("TypeError", "unsupported operand type(s)")
    ELSE IF IsIntArray(a.value) /\ IsIntArray(b.value)
    THEN IF Len(a.value.data) = Len(b.value.data)
         THEN Returned(NdArray([i \in DOMAIN a.value.data |->
                                   IntOp(op, a.value.data[i], b.value.data[i])]))
         ELSE IF Len(b.value.data) = 1
         THEN Returned(NdArray([i \in DOMAIN a.value.data |->
                                   IntOp(op, a.value.data[i], b.value.data[1])]))
         ELSE IF Len(a.value.data) = 1
         THEN Returned(NdArray([i \in DOMAIN b.value.data |->
                                   IntOp(op, a.value.data[1], b.value.data[i])]))
         ELSE Raised("ValueError", "operands could not be broadcast together")
    ELSE IF IsIntArray(a.value) /\ IsIntValue(b.value)
    THEN Returned(NdArray([i \in DOMAIN a.value.data |->
                              IntOp(op, a.value.data[i], b.value.data[1])]))
    ELSE IF IsIntValue(a.value) /\ IsIntArray(b.value)
    THEN Returned(NdArray([i \in DOMAIN b.value.data |->
                              IntOp(op, a.value.data[1], b.value.data[i])]))
    ELSE IF IsIntValue(a.value) /\ IsIntValue(b.value)
    THEN Returned(PyInt(IntOp(op, a.value.data[1], b.value.data[1])))
    ELSE fate.outcome

\* np.mean of a one-dimensional int array or of an int: an np.float64, nan
\* for an empty array
mean(v) ==
    IF IsIntArray(v) THEN Float64(SumOf(v.data), Len(v.data))
    ELSE Float64(v.data[1], 1)

\* f(arg): only a function of the namespace can be called; mean is
\* computed, what the other functions return is left to fate
CallResult(f, arg, fate) ==
    IF arg.raised # "none" THEN arg
    ELSE IF f.type # "function"
    THEN Raised("TypeError", "object is not callable")
    ELSE IF f.name = n_mean /\ (IsIntArray(arg.value) \/ IsIntValue(arg.value))
    THEN Returned(mean(arg.value))
    ELSE fate.outcome

\* a name that resolves: a local, or the one global, __builtins__, which is
\* an empty dict
Lookup(name, namespace) ==
    IF name \in DOMAIN namespace THEN namespace[name]
    ELSE Value("dict", 0, FALSE, <<>>, <<>>, n_builtins)

\* the value of a syntax tree whose names all resolve
RECURSIVE Compute(_, _, _)
Compute(tree, namespace, fate) ==
    IF tree.op = "name"
    THEN Returned(Lookup(tree.name, namespace))
    ELSE IF tree.op = "num"
    THEN Returned(PyInt(tree.value))
    ELSE IF tree.op = "call"
    THEN CallResult(Lookup(tree.name, namespace),
                    Compute(tree.arg, namespace, fate), fate)
    ELSE BinaryResult(tree.op, Compute(tree.a, namespace, fate),
                      Compute(tree.b, namespace, fate), fate)

\* eval() on the compiled text r: resolve its names, compute
EvalParsed(r, expression, namespace, fate) ==
    IF ~r.ok
    THEN Raised("SyntaxError", "invalid syntax")
    ELSE IF \E n \in r.val.names : n \notin ResolvableNames(namespace)
    THEN Raised("NameError", "name is not defined")
    ELSE IF IsBareName(expression) /\ expression \in DOMAIN namespace
    THEN Returned(namespace[expression])
    ELSE Compute(r.val.tree, namespace, fate)

EvalExpression(expression, namespace, fate) ==
    EvalParsed(PyParse(expression), expression, namespace, fate)

\* the except clauses of execute_expression, on how its with block ended
ExecuteHandlers(body) ==
    IF body.raised \in {"none", "ExecutionTimeoutError"}
    THEN body
    ELSE Raised("FunctionParseError", "execution failed")

execute_expression(expression, namespace, env, fate) ==
    ExecuteHandlers(
        IF env.alarm /\ ~env.main_thread
        THEN Raised("ValueError", "signal only works in main thread")
        ELSE IF fate.late
        THEN Raised("ExecutionTimeoutError", "timeout")
        ELSE EvalExpression(expression, namespace, fate))

(***************************************************************************)
(* SafeExecutionEnvironment.apply_function_to_data and                     *)
(* FunctionProcessor.apply_function                                        *)
(***************************************************************************)
Str(message) == [kind |-> "str", text |-> message]

ProcessingResult(data, status, error_message) ==
    [kind |-> "ProcessingResult", data |-> data, status |-> status,
     error_message |-> error_message]

\* the call does not return: the exception leaves it
Propagates(class) ==
    [kind |-> "raised", data |-> None, status |-> class, error_message |-> None]

\* the result of execute_expression goes through _process_result
ProcessExecuted(result, data) ==
    IF result.raised # "none" THEN result ELSE process_result(result.value, data)

\* the try block of apply_function_to_data
ApplyBody(data, expression, variables, env, fate) ==
    IF data.kind # "DataFrame"
    THEN Raised("FunctionParseError", "not a DataFrame")
    ELSE ProcessExecuted(
            execute_expression(expression,
                create_safe_namespace(prepare_data_variables(data, variables)),
                env, fate),
            data)

\* apply_function_to_data without its last except clause
ApplyHandlers_Unguarded(body) ==
    IF body.raised = "none"
    THEN ProcessingResult(body.value, "success", None)
    ELSE IF body.raised \in {"ExecutionTimeoutError", "FunctionParseError"}
    THEN ProcessingResult(None, "error", Str(body.message))
    ELSE Propagates(body.raised)

\* the return statement and the two except clauses of apply_function_to_data
ApplyHandlers(body) ==
    IF body.raised = "none"
    THEN ProcessingResult(body.value, "success", None)
    ELSE IF body.raised \in {"ExecutionTimeoutError", "FunctionParseError"}
    THEN ProcessingResult(None, "error", Str(body.message))
    ELSE ProcessingResult(None, "error", Str("unknown error"))

apply_function_to_data(data, expression, variables, env, fate) ==
    ApplyHandlers(ApplyBody(data, expression, variables, env, fate))

\* the except clause of FunctionProcessor.apply_function, on what the
\* evaluator did
ProcessorHandlers(r) ==
    IF r.kind = "raised"
    THEN ProcessingResult(None, "error", Str("apply failed"))
    ELSE r

apply_function(data, expression, env, fate) ==
    ProcessorHandlers(apply_function_to_data(data, expression.expression,
                                             expression.variables, env, fate))

(***************************************************************************)
(* validate_syntax of ExpressionParser and of FunctionProcessor: both call *)
(* ExpressionParser.parse_expression and turn how it ended into a bool.    *)
(***************************************************************************)
\* how parse_expression ended, seen from its caller: it returned, or it
\* raised an exception of the class outcome.kind
ParseRaised(outcome) == IF outcome.kind = "FunctionExpression" THEN "none" ELSE outcome.kind

\* the try statement without its except clause
SyntaxHandlers_Uncaught(outcome) ==
    IF ParseRaised(outcome) = "none" THEN Returned(TRUE)
    ELSE Raised(ParseRaised(outcome), outcome.message)

\* the try statement of ExpressionParser.validate_syntax: True after the
\* call, False in `except FunctionParseError`
SyntaxHandlers(outcome) ==
    IF ParseRaised(outcome) = "none" THEN Returned(TRUE)
    ELSE IF ParseRaised(outcome) = "FunctionParseError" THEN Returned(FALSE)
    ELSE Raised(ParseRaised(outcome), outcome.message)

validate_syntax(t) == SyntaxHandlers(parse_expression(t))

\* the try statement of FunctionProcessor.validate_syntax: its except clause
\* names FunctionParseError and Exception
ProcessorSyntaxHandlers(outcome) ==
    IF ParseRaised(outcome) = "none" THEN Returned(TRUE) ELSE Returned(FALSE)

processor_validate_syntax(t) == ProcessorSyntaxHandlers(parse_expression(t))

(***************************************************************************)
(* FunctionProcessor.validate_function_with_data                           *)
(***************************************************************************)
\* str.lower()
Lower(t) == [i \in DOMAIN t |-> LowerChar(t[i])]

\* a column label that is an int, as pd.DataFrame(rows) labels columns 0, 1,
\* ...: written '#' and its digit, which no name is
IntLabel(k) == <<"#", Digits[k + 1]>>
IsIntLabel(label) == label # <<>> /\ label[1] = "#"

\* the if/elif chain of the loop over parsed.variables: TRUE when it appends
\* var to available_variables, FALSE when to missing_variables
IsAvailable(d, var) ==
    IF var \in Range(d.columns) THEN TRUE
    ELSE IF var \in {n_index, n_pi, n_e} THEN TRUE
    ELSE IF StartsWith(var, n_col_) /\ IsDigits(SubSeq(var, 5, Len(var)))
    THEN 0 <= ToInt(SubSeq(var, 5, Len(var))) /\ ToInt(SubSeq(var, 5, Len(var))) < Len(d.columns)
    ELSE FALSE

\* the columns var is part of or that are part of var, letter case ignored
similar_cols(var, available_cols) ==
    SelectSeq(available_cols,
              LAMBDA col : Contains(Lower(col), Lower(var)) \/ Contains(Lower(var), Lower(col)))

\* _get_variable_suggestions: one suggestion for each missing variable, a
\* similar column when there is one; col.lower() raises AttributeError for an
\* int label
get_variable_suggestions(missing_vars, available_cols) ==
    IF missing_vars # <<>> /\ \E c \in Range(available_cols) : IsIntLabel(c)
    THEN Raised("AttributeError", "'int' object has no attribute 'lower'")
    ELSE Returned([i \in DOMAIN missing_vars |->
            IF similar_cols(missing_vars[i], available_cols) # <<>>
            THEN [variable |-> missing_vars[i], kind |-> "similar",
                  column |-> similar_cols(missing_vars[i], available_cols)[1]]
            ELSE [variable |-> missing_vars[i], kind |-> "generic", column |-> <<>>]])

\* the dict of the except clause
ValidationFailed(message) ==
    [kind |-> "validation", is_valid |-> FALSE, error |-> Str(message),
     available_variables |-> <<>>, missing_variables |-> <<>>,
     data_columns |-> <<>>, suggestions |-> <<>>]

\* the dict the try block returns, given what _get_variable_suggestions did
Validation(d, variables, suggestions) ==
    IF suggestions.raised # "none" THEN ValidationFailed(suggestions.message)
    ELSE [kind |-> "validation",
          is_valid |-> (SelectSeq(variables, LAMBDA v : ~IsAvailable(d, v)) = <<>>),
          error |-> None,
          available_variables |-> SelectSeq(variables, LAMBDA v : IsAvailable(d, v)),
          missing_variables |-> SelectSeq(variables, LAMBDA v : ~IsAvailable(d, v)),
          data_columns |-> d.columns,
          suggestions |-> suggestions.value]

\* validate_function_with_data on what parse_expression returned: a content
\* that is no DataFrame has no attribute columns
ValidateParsed(p, data) ==
    IF p.kind = "FunctionParseError" THEN ValidationFailed(p.message)
    ELSE IF data.kind # "DataFrame"
    THEN ValidationFailed("object has no attribute 'columns'")
    ELSE Validation(data, p.variables,
            get_variable_suggestions(
                SelectSeq(p.variables, LAMBDA v : ~IsAvailable(data, v)), data.columns))

validate_function_with_data(expression, data) ==
    ValidateParsed(parse_expression(expression), data)

(***************************************************************************)
(* The texts submitted: a name, blanks, and a tail; and texts built to     *)
(* reach the length and nesting limits of the gate.                        *)
(***************************************************************************)
MaxBlanks == 1
MaxExtra == 1

Heads ==
    { <<"x">>,
      <<"f","o","o">>,
      <<"s","i","n">>,
      <<"a","b","s">>,
      <<"p","i">>,
      <<"m","e","a","n">>,
      <<"s","u","m">>,
      n_var,
      <<"e","v","a","l">>,
      <<"E","V","A","L">>,
      <<"E","x","e","c">>,
      <<"o","p","e","n">>,
      <<"F","I","L","E">>,
      <<"i","n","p","u","t">>,
      <<"R","a","w","_","I","n","p","u","t">>,
      <<"i","m","p","o","r","t">>,
      <<"I","m","p","o","r","t">>,
      <<"_","_">>,
      <<"_","_","x","_","_">>,
      <<"_","_","I","n","i","t","_","_">>,
      <<"f","o","r">> }

Tails ==
    { <<>>,
      <<"(","x",")">>,
      <<"("," ","x"," ",")">>,
      <<"(","x">>,
      <<"+","y">>,
      <<"+">>,
      <<"y">>,
      <<"(","f","o","o","(","y",")",")">> }

\* k closing parentheses, d opening ones, the name x...x, d closing ones:
\* n characters in all
Wrapped(k, d, n) ==
    Rep(")", k) \o Rep("(", d) \o Rep("x", n - k - 2 * d) \o Rep(")", d)

LimitTexts ==
    { Wrapped(k, d, n) :
        k \in 0..MaxExtra,
        d \in {0} \cup ((MaxNestingDepth - MaxExtra)..(MaxNestingDepth + MaxExtra)),
        n \in {2 * MaxNestingDepth + 2 * MaxExtra + 2}
              \cup ((MaxExpressionLength - MaxExtra)..(MaxExpressionLength + MaxExtra)) }

\* texts around the two thresholds of validate_expression_safety, with and
\* without a forbidden name
SafetyLimitTexts ==
    { prefix \o Rep("x", n - Len(prefix)) :
        prefix \in {<<>>, w_eval},
        n \in (LongExpressionLength - MaxExtra)..(LongExpressionLength + MaxExtra) }
    \cup
    { prefix \o Rep("(", k) :
        prefix \in {<<>>, w_eval},
        k \in (ManyParentheses - MaxExtra)..(ManyParentheses + MaxExtra) }

\* the texts of the repository's tests
t_sqrt_sum == <<"s","q","r","t","(","x","*","*","2"," ","+"," ","y","*","*","2",")">>
ExampleTexts ==
    { t_sqrt_sum,
      <<"x"," ","+"," ","y"," ","+">>,
      <<"s","i","n","(","x"," ","+"," ","y">>,
      <<"x"," ","+"," ","y">>,
      <<"m","e","a","n","(","x",")">> }

\* f(x) for every name f of the registry
RegistryCallTexts == { f \o <<"(","x",")">> : f \in SupportedNames }

Texts ==
    { h \o Rep(" ", b) \o tl : h \in Heads, b \in 0..MaxBlanks, tl \in Tails }
    \cup LimitTexts \cup SafetyLimitTexts \cup ExampleTexts \cup RegistryCallTexts

(***************************************************************************)
(* SafeExecutionEnvironment.timeout_handler and execute_expression, step   *)
(* by step, on the threads of one process. With SIGALRM the handler and    *)
(* the alarm belong to the process, and Python runs the handler in the     *)
(* main thread before that thread's next bytecode; a primitive (C code) is *)
(* not interrupted, and one that never returns is never left.              *)
(***************************************************************************)
max_execution_time == 2
MaxTime == 5
MaxWork == max_execution_time + 1
\* how long an evaluation needs: no time, the time allowed, more
Needs == {0, max_execution_time, MaxWork}

Threads == {"main", "worker"}
\* where a start_time can be kept: the frame of a thread, the shared object
Slots == Threads \cup {"self"}
\* what the threads of the process read and write
Places == {"SIGALRM handler", "alarm"} \cup Slots

\* start_time kept in a field of the shared SafeExecutionEnvironment
StartTimeSlot_Shared(t) == "self"
\* start_time is a local of the timeout_handler generator of the thread
StartTimeSlot(t) == t

\* a wall-clock check that never fires
TimedOut_Never(elapsed) == FALSE
\* a wall-clock check that fires at the deadline already
TimedOut_AtDeadline(elapsed) == elapsed >= max_execution_time
\* time.time() - start_time > seconds
TimedOut(elapsed) == elapsed > max_execution_time

TimeoutError == Raised("ExecutionTimeoutError", "timeout")
EvalOutcomes == {Returned(PyFloat), Raised("ZeroDivisionError", "division by zero")}

\* a thread that has not called the evaluator; will_call: it is going to
IdleThread(will_call) ==
    [pc |-> "idle", will_call |-> will_call,
     need |-> 0, primitive |-> FALSE, hangs |-> FALSE, outcome |-> Returned(PyFloat),
     began |-> 0, overran |-> FALSE, due |-> FALSE, late |-> FALSE, overlapped |-> FALSE,
     ended |-> Returned(PyFloat), old_handler |-> "SIG_DFL", result |-> None]

NoAccess == [p \in Places |-> [readers |-> {}, writers |-> {}]]
Reads(a, p, t) == [a EXCEPT ![p].readers = @ \cup {t}]
Writes(a, p, t) == [a EXCEPT ![p].writers = @ \cup {t}]

NoEvaluation ==
    /\ has_sigalrm = TRUE
    /\ now = 0
    /\ sigalrm = [handler |-> "SIG_DFL", alarm_at |-> 0, pending |-> FALSE]
    /\ start_time = [p \in Slots |-> 0]
    /\ threads = [t \in Threads |-> IdleThread(FALSE)]
    /\ access = NoAccess

InitEval ==
    /\ text = <<>>
    /\ parsed = None
    /\ safety = None
    /\ syntax = None
    /\ df = None
    /\ call = NoCall
    /\ registry = FunctionLibrary
    /\ has_sigalrm \in BOOLEAN
    /\ now = 0
    /\ sigalrm = [handler |-> "SIG_DFL", alarm_at |-> 0, pending |-> FALSE]
    /\ start_time = [p \in Slots |-> 0]
    /\ threads \in [Threads -> {IdleThread(will_call) : will_call \in BOOLEAN}]
    /\ access = NoAccess

\* what thread t knows of its own evaluation when it leaves the with block:
\* whether the time allowed has passed since it began, and whether more has
Leaving(th) ==
    [th EXCEPT !.due = now - th.began >= max_execution_time,
               !.late = now - th.began > max_execution_time]

Evaluating(t) == threads[t].pc \in {"eval", "evaluated", "finally", "restore"}

\* the main thread is between two bytecodes, not inside a primitive
MainInterruptible == ~(threads["main"].pc = "eval" /\ threads["main"].primitive)
AlarmDue == sigalrm.alarm_at # 0 /\ now >= sigalrm.alarm_at
Blocked(t) == t = "main" /\ sigalrm.pending

\* apply_function_to_data is called and execute_expression enters
\* `with self.timeout_handler(self.max_execution_time)`
Enter(t) ==
    /\ threads[t].pc = "idle"
    /\ threads[t].will_call
    /\ now + MaxWork <= MaxTime
    /\ \E need \in Needs, primitive \in BOOLEAN, hangs \in BOOLEAN, outcome \in EvalOutcomes :
        /\ hangs => primitive
        /\ LET work == [threads[t] EXCEPT !.will_call = FALSE, !.need = need,
                            !.primitive = primitive, !.hangs = hangs, !.outcome = outcome,
                            !.began = now,
                            !.overlapped = \E u \in Threads \ {t} : Evaluating(u)]
           IN IF has_sigalrm
              THEN IF t = "main"
                   THEN /\ threads' = [threads EXCEPT ![t] =
                                [work EXCEPT !.pc = "eval", !.old_handler = sigalrm.handler]]
                        /\ sigalrm' = [sigalrm EXCEPT !.handler = "timeout_callback",
                                                      !.alarm_at = now + max_execution_time]
                        /\ access' = Writes(Writes(Reads(access, "SIGALRM handler", t),
                                                   "SIGALRM handler", t), "alarm", t)
                        /\ UNCHANGED start_time
                   ELSE /\ threads' = [threads EXCEPT ![t] =
                                [work EXCEPT !.pc = "handlers",
                                    !.ended = Raised("ValueError", "signal only works in main thread")]]
                        /\ UNCHANGED <<sigalrm, start_time, access>>
              ELSE /\ threads' = [threads EXCEPT ![t] = [work EXCEPT !.pc = "eval"]]
                   /\ start_time' = [start_time EXCEPT ![StartTimeSlot(t)] = now]
                   /\ access' = Writes(access, StartTimeSlot(t), t)
                   /\ UNCHANGED sigalrm
    /\ UNCHANGED <<textVars, dataVars, has_sigalrm, now>>

\* the evaluation comes to its end: the value or the fault of the expression
EvalEnds(t) ==
    /\ threads[t].pc = "eval"
    /\ ~threads[t].hangs
    /\ now >= threads[t].began + threads[t].need
    /\ threads[t].primitive \/ ~Blocked(t)
    /\ threads' = [threads EXCEPT ![t].pc = "evaluated",
                        ![t].overran = now - threads[t].began > max_execution_time,
                        ![t].ended = threads[t].outcome]
    /\ UNCHANGED <<textVars, dataVars, has_sigalrm, now, sigalrm, start_time, access>>

\* eval() returns or raises into the with block
LeaveEval(t) ==
    /\ threads[t].pc = "evaluated"
    /\ ~Blocked(t)
    /\ threads' = [threads EXCEPT ![t].pc = "finally"]
    /\ UNCHANGED <<textVars, dataVars, has_sigalrm, now, sigalrm, start_time, access>>

\* the finally clause: signal.alarm(0), or the wall-clock check
Finally(t) ==
    /\ threads[t].pc = "finally"
    /\ ~Blocked(t)
    /\ IF has_sigalrm
       THEN /\ sigalrm' = [sigalrm EXCEPT !.alarm_at = 0]
            /\ threads' = [threads EXCEPT ![t] =
                    IF threads[t].ended = TimeoutError
                    THEN [threads[t] EXCEPT !.pc = "restore"]
                    ELSE [Leaving(threads[t]) EXCEPT !.pc = "restore"]]
            /\ access' = Writes(access, "alarm", t)
       ELSE /\ threads' = [threads EXCEPT ![t] =
                    [Leaving(threads[t]) EXCEPT !.pc = "handlers",
                        !.ended = IF TimedOut(now - start_time[StartTimeSlot(t)])
                                  THEN TimeoutError ELSE @]]
            /\ access' = Reads(access, StartTimeSlot(t), t)
            /\ UNCHANGED sigalrm
    /\ UNCHANGED <<textVars, dataVars, has_sigalrm, now, start_time>>

\* the finally clause: signal.signal(signal.SIGALRM, old_handler)
Restore(t) ==
    /\ threads[t].pc = "restore"
    /\ ~Blocked(t)
    /\ sigalrm' = [sigalrm EXCEPT !.handler = threads[t].old_handler]
    /\ threads' = [threads EXCEPT ![t].pc = "handlers"]
    /\ access' = Writes(access, "SIGALRM handler", t)
    /\ UNCHANGED <<textVars, dataVars, has_sigalrm, now, start_time>>

\* the except clauses of execute_expression and of apply_function_to_data,
\* and the return of the ProcessingResult
Handlers(t) ==
    /\ threads[t].pc = "handlers"
    /\ threads' = [threads EXCEPT ![t].pc = "done", ![t].began = 0,
                        ![t].result = ApplyHandlers(ExecuteHandlers(threads[t].ended))]
    /\ UNCHANGED <<textVars, dataVars, has_sigalrm, now, sigalrm, start_time, access>>

\* the clock; an alarm that is due goes off first, and a handler that can
\* run runs first
Tick ==
    /\ now < MaxTime
    /\ \E t \in Threads : threads[t].pc \notin {"idle", "done"}
    /\ ~AlarmDue
    /\ ~(sigalrm.pending /\ MainInterruptible)
    /\ now' = now + 1
    /\ UNCHANGED <<textVars, dataVars, has_sigalrm, sigalrm, start_time, threads, access>>

\* the kernel delivers SIGALRM: Python notes it for the main thread
Alarm ==
    /\ AlarmDue
    /\ sigalrm' = [sigalrm EXCEPT !.alarm_at = 0, !.pending = TRUE]
    /\ UNCHANGED <<textVars, dataVars, has_sigalrm, now, start_time, threads, access>>

\* the main thread runs the Python handler of SIGALRM: timeout_callback
\* raises ExecutionTimeoutError where the main thread is; inside the finally
\* clause this leaves the clause at once
HandleSignal ==
    /\ sigalrm.pending
    /\ MainInterruptible
    /\ sigalrm' = [sigalrm EXCEPT !.pending = FALSE]
    /\ access' = Reads(access, "SIGALRM handler", "main")
    /\ LET m == threads["main"] IN
       IF sigalrm.handler # "timeout_callback"
       THEN UNCHANGED threads
       ELSE IF m.pc = "eval"
       THEN threads' = [threads EXCEPT !["main"] =
                            [Leaving(m) EXCEPT !.pc = "finally", !.ended = TimeoutError,
                                !.overran = now - m.began > max_execution_time]]
       ELSE IF m.pc = "evaluated"
       THEN threads' = [threads EXCEPT !["main"] =
                            [Leaving(m) EXCEPT !.pc = "finally", !.ended = TimeoutError]]
       ELSE IF m.pc \in {"finally", "restore"}
       THEN threads' = [threads EXCEPT !["main"] =
                            [Leaving(m) EXCEPT !.pc = "handlers", !.ended = TimeoutError]]
       ELSE UNCHANGED threads
    /\ UNCHANGED <<textVars, dataVars, has_sigalrm, now, start_time>>

ThreadStep(t) ==
    \/ Enter(t)
    \/ EvalEnds(t)
    \/ LeaveEval(t)
    \/ Finally(t)
    \/ Restore(t)
    \/ Handlers(t)

NextEval == (\E t \in Threads : ThreadStep(t)) \/ Tick \/ Alarm \/ HandleSignal

SpecEval == InitEval /\ [][NextEval]_vars

\* one evaluation at a time, on a scheduler that lets every thread run, a
\* clock that goes on and signals that are delivered and handled; nothing
\* makes a primitive return
InitOneCaller ==
    /\ InitEval
    /\ \E t \in Threads : threads[t].will_call /\ \A u \in Threads \ {t} : ~threads[u].will_call

SpecEvalFair ==
    /\ InitOneCaller
    /\ [][NextEval]_vars
    /\ \A t \in Threads : WF_vars(ThreadStep(t))
    /\ WF_vars(Tick)
    /\ WF_vars(Alarm)
    /\ WF_vars(HandleSignal)

(***************************************************************************)
(* The parser and the safety validator on one submitted text               *)
(***************************************************************************)
Init ==
    /\ text \in Texts
    /\ parsed = None
    /\ safety = None
    /\ syntax = None
    /\ df = None
    /\ call = NoCall
    /\ registry = FunctionLibrary
    /\ NoEvaluation

\* FunctionProcessor.parse_expression(text)
ParseExpression ==
    /\ parsed = None
    /\ parsed' = parse_expression(text)
    /\ UNCHANGED <<text, safety, syntax, dataVars, evalVars>>

\* SafeExecutionEnvironment.validate_expression_safety(text)
ValidateExpressionSafety ==
    /\ safety = None
    /\ safety' = validate_expression_safety(text)
    /\ UNCHANGED <<text, parsed, syntax, dataVars, evalVars>>

\* ExpressionParser.validate_syntax(text) and
\* FunctionProcessor.validate_syntax(text)
ValidateSyntax ==
    /\ syntax = None
    /\ syntax' = [kind |-> "syntax",
                  parser |-> validate_syntax(text),
                  processor |-> processor_validate_syntax(text)]
    /\ UNCHANGED <<text, parsed, safety, dataVars, evalVars>>

Next == ParseExpression \/ ValidateExpressionSafety \/ ValidateSyntax

Spec == Init /\ [][Next]_vars


(***************************************************************************)
(* The evaluator on a data source: bind, namespace, coerce and apply, each *)
(* on the table at hand. The evaluator keeps nothing between calls, so a   *)
(* run is one call, and call records it.                                   *)
(***************************************************************************)
MaxVariables == 2

n_col_9 == <<"c","o","l","_","9">>
n_col_01 == <<"c","o","l","_","0","1">>
n_z == <<"z">>
n_sin == <<"s","i","n">>

VariableNames == {n_x, n_z, n_index, n_col_1, n_col_01, n_col_9, n_pi, n_inf}
VariableLists == SeqsUpTo(VariableNames, MaxVariables)

DataSources == Tables \cup {NotAFrame}

RawData(k) == [i \in 1..k |-> 7 * i]
RawLengths == 0..(MaxRows + 1)

\* what an evaluation can hand to _process_result (the elements of an array
\* of two dimensions in row order)
RawResults ==
    {Value("ndarray", 0, TRUE, <<>>, <<>>, <<>>),
     Value("ndarray", 0, FALSE, <<>>, <<>>, <<>>),
     Value("ndarray", 2, TRUE, RawData(1), <<>>, <<>>),
     Value("int", 0, TRUE, <<>>, <<>>, <<>>),
     Value("bool", 0, TRUE, <<>>, <<>>, <<>>),
     Value("complex", 0, FALSE, <<>>, <<>>, <<>>),
     Value("numpy.int64", 0, TRUE, <<>>, <<>>, <<>>),
     Value("NoneType", 0, FALSE, <<>>, <<>>, <<>>),
     Value("DataFrame", 2, FALSE, <<>>, <<>>, <<>>),
     PyFloat, PyStr, PyFunction(n_sin)}
    \cup {NdArray(RawData(k)) : k \in RawLengths}
    \cup {Series(RawData(k), [i \in 1..k |-> i - 1]) : k \in RawLengths}
    \cup {PyList(RawData(k), 1) : k \in RawLengths}
    \cup {PyTuple(RawData(k)) : k \in RawLengths}

Outcomes ==
    {Returned(r) : r \in RawResults} \cup {Raised("ZeroDivisionError", "division by zero")}
\* an evaluation that ends in time ends with any outcome; one that overruns
\* the deadline ends with a value or with a fault
LateOutcomes == {Returned(PyFloat), Raised("ZeroDivisionError", "division by zero")}
Fates == [outcome : Outcomes, late : {FALSE}] \cup [outcome : LateOutcomes, late : {TRUE}]

ApplyTexts == {<<"x">>, <<"i","n","d","e","x">>, <<"s","i","n">>, <<"x","+","z">>, <<"s","i","n","(","x",")">>, <<"f","o","o","(","x",")">>, <<"c","o","l","_","9">>}
Expressions ==
    {e \in {parse_expression(t) : t \in ApplyTexts} : e.kind = "FunctionExpression"}

InitData ==
    /\ text = <<>>
    /\ parsed = None
    /\ safety = None
    /\ syntax = None
    /\ df \in DataSources
    /\ call = NoCall
    /\ registry = FunctionLibrary
    /\ NoEvaluation

PrepareDataVariables ==
    /\ call = NoCall
    /\ df.kind = "DataFrame"
    /\ \E variables \in VariableLists :
        call' = [op |-> "bind", variables |-> variables,
                 data_vars |-> prepare_data_variables(df, variables)]
    /\ UNCHANGED <<textVars, df, registry, evalVars>>

CreateSafeNamespace ==
    /\ call = NoCall
    /\ df.kind = "DataFrame"
    /\ \E variables \in VariableLists :
        LET data_vars == prepare_data_variables(df, variables) IN
        call' = [op |-> "namespace", data_vars |-> data_vars,
                 namespace |-> create_safe_namespace(data_vars)]
    /\ UNCHANGED <<textVars, df, registry, evalVars>>

ProcessResult ==
    /\ call = NoCall
    /\ df.kind = "DataFrame"
    /\ \E result \in RawResults :
        call' = [op |-> "coerce", result |-> result,
                 processed |-> process_result(result, df)]
    /\ UNCHANGED <<textVars, df, registry, evalVars>>

ApplyFunction ==
    /\ call = NoCall
    /\ \E expression \in Expressions, env \in Environments, fate \in Fates :
        call' = [op |-> "apply", expression |-> expression, env |-> env, fate |-> fate,
                 evaluator |-> apply_function_to_data(df, expression.expression,
                                                      expression.variables, env, fate),
                 result |-> apply_function(df, expression, env, fate)]
    /\ UNCHANGED <<textVars, df, registry, evalVars>>

NextData == PrepareDataVariables \/ CreateSafeNamespace \/ ProcessResult \/ ApplyFunction

SpecData == InitData /\ [][NextData]_vars


(***************************************************************************)
(* The FunctionProcessor on a table whose columns are x and y, with        *)
(* expressions whose evaluation is computed. ExampleXY and ExampleX are    *)
(* the tables of the repository's tests.                                   *)
(***************************************************************************)
ComputeColumns == {n_x, n_y}

ExampleXY ==
    [kind |-> "DataFrame", columns |-> <<n_x, n_y>>, index |-> <<0, 1, 2>>,
     cells |-> << <<1, 2, 3>>, <<2, 4, 6>> >>]
ExampleX ==
    [kind |-> "DataFrame", columns |-> <<n_x>>, index |-> <<0, 1, 2, 3, 4>>,
     cells |-> << <<1, 2, 3, 4, 5>> >>]

ComputeTables ==
    { DataFrame(columns, rows, custom) :
        columns \in DistinctSeqs(ComputeColumns, MaxColumns),
        rows \in 0..MaxRows,
        custom \in BOOLEAN }
    \cup {ExampleXY, ExampleX}

t_x_plus_y == <<"x"," ","+"," ","y">>
t_mean_x == <<"m","e","a","n","(","x",")">>
t_list_x == <<"l","i","s","t","(","x",")">>
t_len_x == <<"l","e","n","(","x",")">>

ComputeTexts ==
    { t_x_plus_y,
      t_mean_x,
      <<"x","+","y">>,
      <<"y","+","x">>,
      <<"x","*","y">>,
      <<"x","+","1">>,
      <<"m","e","a","n","(","y",")">>,
      <<"m","e","a","n","(","x","+","y",")">>,
      t_list_x }
\* a FunctionExpression the caller builds without the parser, which rejects
\* the text len(x)
DirectExpressions ==
    { [kind |-> "FunctionExpression", expression |-> t_len_x, variables |-> <<n_x>>,
       parameters |-> extract_parameters(t_len_x), functions_used |-> {}] }
ComputeExpressions ==
    {e \in {parse_expression(t) : t \in ComputeTexts} : e.kind = "FunctionExpression"}
    \cup DirectExpressions

\* tables as pd.DataFrame(rows) makes them from rows without a header: the
\* columns are labelled 0, 1, ...
ManualTables ==
    { DataFrame([c \in 1..k |-> IntLabel(c - 1)], rows, FALSE) :
        k \in 1..MaxColumns, rows \in 0..MaxRows }

t_x_plus_z == <<"x","+","z">>

ValidateTexts ==
    ComputeTexts \cup
    { t_x_plus_z,
      <<"x">>,
      <<"X","+","y">>,
      <<"x","y","+","z">>,
      <<"i","n","d","e","x","+","x">>,
      <<"c","o","l","_","0","+","z">>,
      <<"c","o","l","_","1">>,
      <<"c","o","l","_","9">>,
      <<"c","o","l","_","0","1","+","c","o","l","_","x">>,
      <<"s","i","n","(","x",")","+","p","i">>,
      <<"2","+","3">>,
      <<"x","+">>,
      <<"e","v","a","l","(","x",")">> }

InitProcessor ==
    /\ text = <<>>
    /\ parsed = None
    /\ safety = None
    /\ syntax = None
    /\ df \in ComputeTables \cup ManualTables
    /\ call = NoCall
    /\ registry = FunctionLibrary
    /\ NoEvaluation

\* FunctionProcessor.apply_function on a parsed expression
ApplyComputed ==
    /\ call = NoCall
    /\ \E expression \in ComputeExpressions, env \in Environments, fate \in Fates :
        call' = [op |-> "apply", expression |-> expression, env |-> env, fate |-> fate,
                 evaluator |-> apply_function_to_data(df, expression.expression,
                                                      expression.variables, env, fate),
                 result |-> apply_function(df, expression, env, fate)]
    /\ UNCHANGED <<textVars, df, registry, evalVars>>

\* FunctionProcessor.validate_function_with_data on a text
ValidateFunctionWithData ==
    /\ call = NoCall
    /\ \E t \in ValidateTexts :
        call' = [op |-> "validate", text |-> t,
                 result |-> validate_function_with_data(t, df)]
    /\ UNCHANGED <<textVars, df, registry, evalVars>>

\* the names asked about: the names get_supported_functions() returns, and
\* names it does not return
InfoNames ==
    Range(get_supported_function_names)
    \cup {n_x, <<"f","o","o">>, <<"l","e","n">>, <<"S","i","n">>, <<>>}

\* FunctionProcessor.get_function_info on a name
GetFunctionInfo ==
    /\ call = NoCall
    /\ \E name \in InfoNames :
        call' = [op |-> "info", name |-> name,
                 info |-> processor_get_function_info(name)]
    /\ UNCHANGED <<textVars, df, registry, evalVars>>

NextProcessor == ApplyComputed \/ ValidateFunctionWithData \/ GetFunctionInfo

SpecProcessor == InitProcessor /\ [][NextProcessor]_vars


(***************************************************************************)
(* Properties of the parser and the safety validator                       *)
(***************************************************************************)
BothDone == parsed # None /\ safety # None

\* C1: every text that matches a denylist pattern of the parser, in any
\* letter case, is rejected by parse_expression and is reported by
\* validate_expression_safety with is_safe = false and risk_level = 'high'.
C1_DenylistRejectedByBoth ==
    (BothDone /\ MatchesDangerousPattern(text)) =>
        /\ parsed.kind = "FunctionParseError"
        /\ ~safety.is_safe
        /\ safety.risk_level = "high"

\* the names a text calls, as sympify reads it
CalledNames(t) == Sympify(t).val.calls

\* C2: parse_expression never returns an Expression for a text that calls a
\* function whose name is no FunctionRegistry entry; when the text passes the
\* safety gate and the structural parse, the error is the unsupported-function
\* error.
C2_UnregisteredCallRejected ==
    (parsed # None /\ \E f \in CalledNames(text) : ~is_function_supported(f)) =>
        /\ parsed.kind = "FunctionParseError"
        /\ IsExpressionSafe(text) => parsed.message = "unsupported"

\* '(' adds one, ')' subtracts one: the balance after the first i characters
Balance(t, i) ==
    Cardinality({j \in 1..i : t[j] = "("}) - Cardinality({j \in 1..i : t[j] = ")"})

\* the maximum open-parenthesis depth, scanning left to right
OpenDepth(t) ==
    LET opens == {i \in DOMAIN t : t[i] = "("} IN
    IF opens = {} THEN 0
    ELSE LET top == CHOOSE i \in opens : \A j \in opens : Balance(t, j) <= Balance(t, i)
         IN  IF Balance(t, top) > 0 THEN Balance(t, top) ELSE 0

\* C6: parse_expression rejects every text longer than 1000 characters and
\* every text whose open-parenthesis depth exceeds 10; a text of at most 1000
\* characters and depth at most 10 that matches no denylist pattern is not
\* rejected by the gate.
C6_LengthAndDepthGate ==
    parsed # None =>
        /\ (Len(text) > 1000 \/ OpenDepth(text) > 10) =>
               (parsed.kind = "FunctionParseError" /\ parsed.message = "unsafe")
        /\ (Len(text) <= 1000 /\ OpenDepth(text) <= 10 /\ ~MatchesDangerousPattern(text)) =>
               ~(parsed.kind = "FunctionParseError" /\ parsed.message = "unsafe")

\* a text of exactly 1000 characters nested exactly 10 deep was parsed
C6_Witness ==
    /\ parsed # None
    /\ Len(text) = 1000
    /\ OpenDepth(text) = 10
    /\ parsed.kind = "FunctionExpression"

(***************************************************************************)
(* Properties of the evaluator on a data source                            *)
(***************************************************************************)
IsExecutionResult(r) ==
    /\ r.kind = "ProcessingResult"
    /\ r.status \in {"success", "error"}
    /\ (r.status = "error" <=> (r.error_message # None /\ r.data = None))

\* C3: for every data source and every Expression, apply_function returns an
\* ExecutionResult and no exception leaves it, at the evaluator and at the
\* processor; the status is 'success' or 'error', and it is 'error' exactly
\* when error_message is not null and the value is null.
C3_ApplyAlwaysReturnsResult ==
    call.op = "apply" =>
        IsExecutionResult(call.evaluator) /\ IsExecutionResult(call.result)

\* C3 witness: a fault inside the evaluation (a zero-dimensional array of
\* text reaches float()) on a table, ended as an error result.
C3_Witness ==
    /\ call.op = "apply"
    /\ df.kind = "DataFrame"
    /\ ~call.fate.late
    /\ call.fate.outcome = Returned(Value("ndarray", 0, FALSE, <<>>, <<>>, <<>>))
    /\ ~IsBareName(call.expression.expression)
    /\ call.result = ProcessingResult(None, "error", Str("unknown error"))

AllowedNames(data_vars) ==
    allowed_builtins \cup SupportedNames \cup {n_pi, n_e, n_inf, n_nan} \cup DOMAIN data_vars

\* C5: the names an expression can resolve are allowlisted primitives,
\* registry entries, the constants pi, e, inf, nan and the bound variables,
\* and none of them is a module object.
C5_NamespaceOnlyAllowed ==
    call.op = "namespace" =>
        \A n \in ResolvableNames(call.namespace) :
            /\ n \in AllowedNames(call.data_vars)
            /\ (n \in DOMAIN call.namespace => call.namespace[n].type # "module")

\* the column positions a name of the form col_<N> stands for
PositionsOf(var) ==
    IF StartsWith(var, n_col_) /\ IsDigits(SubSeq(var, 5, Len(var)))
    THEN {ToInt(SubSeq(var, 5, Len(var)))}
    ELSE {}

InRangePosition(d, var) == \E N \in PositionsOf(var) : N < Len(d.columns)

Synthetic(d) == NdArray([r \in 1..Rows(d) |-> r - 1])

\* C8: the binding has an entry for every requested variable, and a name
\* that is no column, is not 'index' and is no in-range col_<N> is bound to
\* 0, 1, ..., row_count - 1.
C8_BindTotal ==
    call.op = "bind" =>
        /\ DOMAIN call.data_vars = Range(call.variables)
        /\ \A v \in Range(call.variables) :
            (v \notin Range(df.columns) /\ v # n_index /\ ~InRangePosition(df, v))
                => (v \in DOMAIN call.data_vars /\ call.data_vars[v] = Synthetic(df))

\* C9: a variable that names a column is bound to that column; else 'index'
\* is bound to the row index; else an in-range col_<N> is bound to the N-th
\* column.
C9_BindResolutionOrder ==
    call.op = "bind" =>
        \A v \in Range(call.variables) :
            IF v \in Range(df.columns)
            THEN /\ v \in DOMAIN call.data_vars
                 /\ \E c \in DOMAIN df.columns :
                        df.columns[c] = v /\ call.data_vars[v] = NdArray(df.cells[c])
            ELSE IF v = n_index
            THEN /\ v \in DOMAIN call.data_vars
                 /\ call.data_vars[v] = NdArray(df.index)
            ELSE \A N \in PositionsOf(v) :
                    N < Len(df.columns) =>
                        /\ v \in DOMAIN call.data_vars
                        /\ call.data_vars[v] = NdArray(df.cells[N + 1])

\* C9 witness: a table with the columns 'col_1' and 'index' and its own row
\* labels; both names are bound to the columns of that name, which are
\* neither the row labels nor the column at position 1.
C9_Witness ==
    /\ call.op = "bind"
    /\ df = DataFrame(<<n_col_1, n_index>>, 2, TRUE)
    /\ call.variables = <<n_index, n_col_1>>
    /\ call.data_vars[n_index] = NdArray(df.cells[2])
    /\ call.data_vars[n_index] # NdArray(df.index)
    /\ call.data_vars[n_col_1] = NdArray(df.cells[1])
    /\ call.data_vars[n_col_1] # NdArray(df.cells[2])

IsOneDimensional(r) == r.ndim = 1 /\ r.type \in {"ndarray", "Series", "list", "tuple"}

\* C10: a zero-dimensional numeric result becomes a scalar, every
\* one-dimensional result as long as the table becomes a Series on the
\* table's row index, a one-dimensional result of another length a plain
\* list, a result of more dimensions a nested list.
C10_CoerceByShape ==
    call.op = "coerce" =>
        LET r == call.result
            p == call.processed
        IN /\ (r.ndim = 0 /\ r.numeric) =>
                (p.raised = "none" /\ p.value.ndim = 0 /\ p.value.numeric)
           /\ (IsOneDimensional(r) /\ Len(r.data) = Rows(df)) =>
                p = Returned(Series(r.data, df.index))
           /\ (IsOneDimensional(r) /\ Len(r.data) # Rows(df)) =>
                p = Returned(PyList(r.data, 1))
           /\ r.ndim > 1 => p = Returned(PyList(r.data, r.ndim))

(***************************************************************************)
(* Properties of the deadline and of evaluations on several threads        *)
(***************************************************************************)
IsTimeoutError(r) == r = ProcessingResult(None, "error", Str("timeout"))

Overran(t) == threads[t].pc = "done" /\ threads[t].overran

\* C4 as stated: an evaluation that ran longer than max_execution_time is
\* returned as an error that says timeout, never as a success, and the call
\* of an evaluation that is past the deadline eventually returns.
C4_OverrunReturnsTimeoutError ==
    /\ [](\A t \in Threads : Overran(t) => IsTimeoutError(threads[t].result))
    /\ \A t \in Threads :
        (threads[t].pc = "eval" /\ now - threads[t].began > max_execution_time)
            ~> (threads[t].pc = "done")

\* C4 amended: an evaluation that ran longer than max_execution_time and
\* came back is returned as an error that says timeout, never as a success;
\* the call returns if the evaluation is not inside a primitive that never
\* returns control.
C4_OverrunThatEndsIsTimeoutError ==
    /\ [](\A t \in Threads : Overran(t) => IsTimeoutError(threads[t].result))
    /\ \A t \in Threads :
        (threads[t].pc = "eval" /\ ~threads[t].hangs) ~> (threads[t].pc = "done")

\* C4 witness: with SIGALRM, a primitive ran past the deadline, came back
\* and the call returned the timeout error.
C4_Witness ==
    /\ has_sigalrm
    /\ threads["main"].pc = "done"
    /\ threads["main"].primitive
    /\ threads["main"].overran
    /\ IsTimeoutError(threads["main"].result)

\* no place is written by one thread and read by another
NoSharedPlace ==
    \A p \in Places : \A w \in access[p].writers, r \in access[p].readers : w = r

\* the results the evaluation of thread t has on its own, given only what
\* it does and the times it reads
AloneResults(t) ==
    LET th == threads[t]
        own == ApplyHandlers(ExecuteHandlers(th.outcome))
        timeout == ProcessingResult(None, "error", Str("timeout"))
    IN IF has_sigalrm /\ t # "main"
       THEN {ProcessingResult(None, "error", Str("execution failed"))}
       ELSE IF has_sigalrm
       THEN IF th.overran THEN {timeout}
            ELSE IF th.due THEN {timeout, own}
            ELSE {own}
       ELSE IF th.late THEN {timeout} ELSE {own}

Column(d, name) == d.cells[ColumnPos(d, name)]

AppliedTo(t) == call.op = "apply" /\ call.expression = parse_expression(t)

\* C11: for a table with numeric columns x and y of equal length n,
\* apply_function on the parsed expression 'x + y' returns status = 'success'
\* and a row-aligned vector of length n whose i-th element is x[i] + y[i].
C11_SumOfColumns ==
    (AppliedTo(t_x_plus_y) /\ {n_x, n_y} \subseteq Range(df.columns)) =>
        /\ call.result.status = "success"
        /\ call.result.data =
               Series([i \in 1..Rows(df) |-> Column(df, n_x)[i] + Column(df, n_y)[i]],
                      df.index)

\* C12: for a table with a numeric column x, apply_function on the parsed
\* expression 'mean(x)' returns status = 'success' and a single scalar equal
\* to the arithmetic mean of the column, never a vector.
C12_MeanIsScalar ==
    (AppliedTo(t_mean_x) /\ n_x \in Range(df.columns)) =>
        /\ call.result.status = "success"
        /\ call.result.data = Float64(SumOf(Column(df, n_x)), Rows(df))
        /\ call.result.data.ndim = 0

Validated == call.op = "validate" /\ parse_expression(call.text).kind = "FunctionExpression"

\* C13: for every accepted expression and table, validate_function_with_data
\* puts each variable of the expression in exactly one of available_variables
\* (a column name, 'index', or an in-range col_<N>) or missing_variables
\* (every other name), reports is_valid = true exactly when missing_variables
\* is empty, and returns one suggestion per missing variable; 'x + z' on a
\* table with column x but not z gives missing_variables = ['z'] and a
\* non-empty suggestion list.
C13_VariablesPartitioned ==
    Validated =>
        LET r == call.result
            variables == Range(parse_expression(call.text).variables)
            available == {v \in variables :
                            \/ v \in Range(df.columns)
                            \/ v = n_index
                            \/ InRangePosition(df, v)}
        IN  /\ Range(r.available_variables) = available
            /\ Range(r.missing_variables) = variables \ available
            /\ Len(r.available_variables) + Len(r.missing_variables) = Cardinality(variables)
            /\ r.is_valid <=> (r.missing_variables = <<>>)
            /\ Len(r.suggestions) = Len(r.missing_variables)
            /\ (call.text = t_x_plus_z /\ n_x \in Range(df.columns) /\ n_z \notin Range(df.columns)) =>
                   (r.missing_variables = <<n_z>> /\ r.suggestions # <<>>)

(***************************************************************************)
(* Properties of validate_syntax and of the parsed expression              *)
(***************************************************************************)
ParsedAndValidated == parsed # None /\ syntax # None

\* C14: for every text, validate_syntax(text) returns true exactly when
\* parse_expression(text) returns an Expression and false exactly when it
\* fails; validate_syntax itself never raises. Both validate_syntax methods,
\* of the parser and of the processor.
C14_SyntaxAgreesWithParse ==
    ParsedAndValidated =>
        /\ syntax.parser.raised = "none"
        /\ syntax.processor.raised = "none"
        /\ syntax.parser.value = (parsed.kind = "FunctionExpression")
        /\ syntax.processor.value = (parsed.kind = "FunctionExpression")

\* C14 witness: a text that sympify rejects was parsed and validated, and
\* validate_syntax returned False
C14_Witness ==
    /\ ParsedAndValidated
    /\ parsed.kind = "FunctionParseError"
    /\ parsed.message = "syntax"
    /\ syntax.parser = Returned(FALSE)

\* the last character of t that is no blank (a blank when there is none)
LastNonBlank(t) ==
    LET at == {i \in DOMAIN t : t[i] # " "} IN
    IF at = {} THEN " " ELSE t[CHOOSE i \in at : \A j \in at : j <= i]

\* a text that ends in a binary operator, or that leaves a parenthesis open
Incomplete(t) ==
    \/ LastNonBlank(t) \in {"+", "-", "*", "/"}
    \/ Balance(t, Len(t)) > 0

\* the registry entries that are functions: pi and e are floats
RegisteredFunctions == SupportedNames \ {n_pi, n_e}

\* a text within the limits of the gate that Python's grammar accepts, that
\* calls registered functions only, and whose other names are variables:
\* names of no function and of no constant
WellFormed(t) ==
    /\ IsExpressionSafe(t)
    /\ PyParse(t).ok
    /\ PyParse(t).val.calls \subseteq RegisteredFunctions
    /\ (PyParse(t).val.names \ PyParse(t).val.calls) \cap
           (SupportedNames \cup SympyFunctionNames \cup PyBuiltinNames \cup SympyConstants) = {}

\* C15: validate_syntax returns false for every syntactically incomplete
\* expression (a trailing binary operator, unclosed parentheses) and true
\* for a well-formed expression over variables and registered functions.
C15_IncompleteFalseWellFormedTrue ==
    syntax # None =>
        /\ Incomplete(text) =>
               (syntax.parser = Returned(FALSE) /\ syntax.processor = Returned(FALSE))
        /\ WellFormed(text) =>
               (syntax.parser = Returned(TRUE) /\ syntax.processor = Returned(TRUE))

Accepted == parsed # None /\ parsed.kind = "FunctionExpression"

OnlyTooLong == Rep("x", MaxExpressionLength + 1)
OnlyTooDeep == Wrapped(0, MaxNestingDepth + 1, 2 * MaxNestingDepth + 2 * MaxExtra + 2)
OnlyUnsafePattern == <<"e","v","a","l","(","x",")">>
OnlySyntax == <<"x","+">>

\* the cause of the failure of a text that fails for one cause only
CauseOf(t) ==
    IF Len(t) > MaxExpressionLength /\ OpenDepth(t) <= MaxNestingDepth /\ ~MatchesDangerousPattern(t)
    THEN "TooLong"
    ELSE IF Len(t) <= MaxExpressionLength /\ OpenDepth(t) > MaxNestingDepth /\ ~MatchesDangerousPattern(t)
    THEN "TooDeep"
    ELSE IF Len(t) <= MaxExpressionLength /\ OpenDepth(t) <= MaxNestingDepth /\ MatchesDangerousPattern(t)
    THEN "UnsafePattern"
    ELSE IF IsExpressionSafe(t) /\ ~PyParse(t).ok
    THEN "Syntax"
    ELSE "other"

\* the error parse_expression returns for the reference text of each cause
ErrorOf ==
    [cause \in {"TooLong", "TooDeep", "UnsafePattern", "Syntax"} |->
        parse_expression(IF cause = "TooLong" THEN OnlyTooLong
                         ELSE IF cause = "TooDeep" THEN OnlyTooDeep
                         ELSE IF cause = "UnsafePattern" THEN OnlyUnsafePattern
                         ELSE OnlySyntax)]

\* C18: a parse failure identifies its cause: a text longer than 1000
\* characters fails as TooLong, one nested deeper than 10 as TooDeep, a
\* denylist match as UnsafePattern, a syntax failure as Syntax, and the error
\* parse_expression returns for one cause differs from the error it returns
\* for each other cause.
C18_CausesDistinguishable ==
    (parsed # None /\ CauseOf(text) # "other") =>
        /\ parsed.kind = "FunctionParseError"
        /\ \A cause \in DOMAIN ErrorOf : cause # CauseOf(text) => parsed # ErrorOf[cause]

\* C19: the report of validate_expression_safety has is_safe true exactly
\* when issues is empty, and risk_level 'high' when issues is non-empty,
\* 'medium' when issues is empty and warnings is non-empty, 'low' when both
\* are empty.
C19_ReportConsistent ==
    safety # None =>
        /\ safety.is_safe <=> (safety.issues = <<>>)
        /\ safety.issues # <<>> => safety.risk_level = "high"
        /\ (safety.issues = <<>> /\ safety.warnings # <<>>) => safety.risk_level = "medium"
        /\ (safety.issues = <<>> /\ safety.warnings = <<>>) => safety.risk_level = "low"

\* C19 witness: a report with an issue and a warning, at risk level 'high'
C19_Witness ==
    /\ safety # None
    /\ safety.issues # <<>>
    /\ safety.warnings # <<>>
    /\ safety.risk_level = "high"

(***************************************************************************)
(* Properties of the function registry                                     *)
(***************************************************************************)
\* C20: for every name returned by get_supported_functions(),
\* get_function_info(name) succeeds (is_available = true) and reports a
\* non-null category that is one of the four registry categories and that
\* lists the name in get_function_categories().
C20_SupportedNamesHaveCategory ==
    (call.op = "info" /\ call.name \in Range(get_supported_function_names)) =>
        /\ call.info.is_available
        /\ call.info.category # "None"
        /\ call.info.category \in {"math", "statistical", "transform", "filter"}
        /\ \E i \in DOMAIN get_function_categories :
               /\ get_function_categories[i].name = call.info.category
               /\ call.name \in Range(get_function_categories[i].functions)

\* C20 witness: the info of the last name of the last table
C20_Witness ==
    /\ call.op = "info"
    /\ call.name = FILTER_FUNCTIONS[Len(FILTER_FUNCTIONS)]
    /\ call.info.is_available
    /\ call.info.category = "filter"

(***************************************************************************)
(* The registry under the public operations of FunctionProcessor and under *)
(* callers that write to what the operations returned. Every operation     *)
(* reaches the tables through get_all_functions or through list(keys()).   *)
(***************************************************************************)
n_foo == <<"f","o","o">>
\* data variables named like a table key, a constant and a new name
ShadowingNames == {n_sin, n_mean, n_pi, n_x}
InfoKeys == << <<"n","a","m","e">>, <<"c","a","t","e","g","o","r","y">>,
               <<"i","s","_","a","v","a","i","l","a","b","l","e">> >>

InitRegistry ==
    /\ text = <<>>
    /\ parsed = None
    /\ safety = None
    /\ syntax = None
    /\ df = None
    /\ call = NoCall
    /\ registry = FunctionLibrary
    /\ NoEvaluation

Handed(op, label, returned, mutable) ==
    [op |-> op, label |-> label, returned |-> returned, mutated |-> ~mutable]

\* FunctionProcessor.get_supported_functions:
\* list(cls.get_all_functions().keys())
GetSupportedFunctions ==
    /\ LET all_functions == AllFunctions(registry) IN
        /\ call' = Handed("get_supported_functions", "names",
                          ListOfKeys(all_functions.entries), TRUE)
        /\ registry' = Stored(registry, all_functions)
    /\ UNCHANGED <<textVars, df, evalVars>>

\* FunctionProcessor.get_function_categories: a new dict of new lists; the
\* caller keeps one of the lists
GetFunctionCategories ==
    /\ \E i \in DOMAIN CategoryNames :
        call' = Handed("get_function_categories", CategoryNames[i],
                       ListOfKeys(registry[CategoryNames[i]]), TRUE)
    /\ UNCHANGED <<textVars, df, registry, evalVars>>

\* FunctionProcessor.get_function_info: get_function_categories(), then
\* get_function (get_all_functions), then a new dict
GetFunctionInfoDict ==
    /\ \E func_name \in {n_sin, n_foo} :
        LET all_functions == AllFunctions(registry) IN
        /\ call' = Handed("get_function_info", "info",
                          Container([i \in DOMAIN InfoKeys |->
                                        [key |-> InfoKeys[i], value |-> PyStr]], "own"),
                          TRUE)
        /\ registry' = Stored(registry, all_functions)
    /\ UNCHANGED <<textVars, df, evalVars>>

\* parse_expression and validate_syntax ask is_function_supported, which
\* lists get_all_functions(); validate_expression_safety reads no table
ReadRegistry ==
    /\ \E op \in {"parse_expression", "validate_syntax", "validate_expression_safety"} :
        /\ call' = Handed(op, "none", Container(<<>>, "own"), FALSE)
        /\ registry' = IF op = "validate_expression_safety" THEN registry
                       ELSE Stored(registry, AllFunctions(registry))
    /\ UNCHANGED <<textVars, df, evalVars>>

\* apply_function on an expression whose variable has the name of a
\* registry entry: create_safe_namespace fills a dict of its own with
\* get_all_functions(), then with data_vars, then with the constants
BindVariable ==
    /\ \E var \in ShadowingNames :
        LET all_functions == AllFunctions(registry)
            base == <<[key |-> n_builtins, value |-> Value("dict", 0, FALSE, <<>>, <<>>, n_builtins)],
                      [key |-> n_np, value |-> Module(n_np)],
                      [key |-> n_pd, value |-> Module(n_pd)]>>
            data_vars == <<[key |-> var, value |-> NdArray(<<1, 2>>)]>>
            constants == [i \in 1..4 |->
                            [key |-> <<n_pi, n_e, n_inf, n_nan>>[i],
                             value |-> Constant(<<n_pi, n_e, n_inf, n_nan>>[i])]]
            namespace == Container(UpdateEntries(UpdateEntries(UpdateEntries(base,
                            all_functions.entries), data_vars), constants), "own")
        IN  /\ call' = Handed("apply_function", "namespace", namespace, FALSE)
            /\ registry' = Stored(Stored(registry, all_functions), namespace)
    /\ UNCHANGED <<textVars, df, evalVars>>

\* the caller writes to the list or dict it was handed: it sets an entry
\* or removes one
MutateReturned ==
    /\ call.op # "none"
    /\ ~call.mutated
    /\ \E key \in Range(KeysOf(call.returned.entries)) \cup {n_foo}, set \in BOOLEAN :
        LET written == [call.returned EXCEPT !.entries =
                            IF set THEN SetItem(@, key, PyFunction(n_foo))
                            ELSE DelItem(@, key)]
        IN  /\ call' = [call EXCEPT !.returned = written, !.mutated = TRUE]
            /\ registry' = Stored(registry, written)
    /\ UNCHANGED <<textVars, df, evalVars>>

NextRegistry ==
    \/ GetSupportedFunctions
    \/ GetFunctionCategories
    \/ GetFunctionInfoDict
    \/ ReadRegistry
    \/ BindVariable
    \/ MutateReturned

SpecRegistry == InitRegistry /\ [][NextRegistry]_vars

\* C21: after any sequence of the public operations, callers writing to the
\* lists and dicts they were handed and expressions binding variables named
\* like registry entries, the registry has the names it was loaded with,
\* each in its category and with its callable.
C21_RegistryUnchanged ==
    /\ registry = FunctionLibrary
    /\ \A i \in DOMAIN CategoryNames :
        KeysOf(registry[CategoryNames[i]]) = get_function_categories[i].functions

\* C21 witness: a caller removed sin from the list of names it was handed,
\* and the registry still lists sin under math.
C21_Witness ==
    /\ call.op = "get_supported_functions"
    /\ call.mutated
    /\ n_sin \notin Range(KeysOf(call.returned.entries))
    /\ n_sin \in Range(KeysOf(registry.math))

\* a variable named like a registry entry was bound in a namespace
C21_WitnessShadowed ==
    /\ call.op = "apply_function"
    /\ \E i \in DOMAIN call.returned.entries :
        /\ call.returned.entries[i].key = n_mean
        /\ call.returned.entries[i].value.type = "ndarray"
    /\ \E i \in DOMAIN registry.statistical :
        /\ registry.statistical[i].key = n_mean
        /\ registry.statistical[i].value = PyFunction(n_mean)

(***************************************************************************)
(* Properties of the evaluation namespace                                  *)
(***************************************************************************)
\* C22: in the namespace every bound data variable is the data vector it
\* was bound to, also when its name is that of a constant (pi, e, inf,
\* nan), of a registry entry or of an allowlisted primitive.
C22_DataVariablesFirst ==
    call.op = "namespace" =>
        \A v \in DOMAIN call.data_vars : call.namespace[v] = call.data_vars[v]

\* an allowlisted primitive called on the column x
PrimitiveCalls == { p \o <<"(","x",")">> : p \in allowed_builtins }
\* the evaluation ends in time with a float, where the deadline can be set
PlainRun(env, fate) ==
    /\ env.alarm => env.main_thread
    /\ fate = [outcome |-> Returned(PyFloat), late |-> FALSE]

\* C23: an allowlisted primitive is resolvable while an expression is
\* evaluated: a call of one on a bound column, such as len(x), does not fail
\* as an unresolved identifier and is returned with status success.
C23_PrimitivesResolve ==
    (/\ call.op = "apply"
     /\ call.expression.expression \in PrimitiveCalls
     /\ PlainRun(call.env, call.fate)) =>
        /\ EvalExpression(call.expression.expression,
                create_safe_namespace(prepare_data_variables(df, call.expression.variables)),
                call.fate).raised # "NameError"
        /\ call.result.status = "success"

(***************************************************************************)
(* Properties of the stages of parse_expression                            *)
(***************************************************************************)
\* the try block of _extract_variables raises: the text is the name of a
\* Python builtin, sympify returns the builtin itself, and a builtin has no
\* free_symbols (AttributeError)
VariableExtractionRaises(t) == SelectSeq(t, LAMBDA c : c # " ") \in PyBuiltinNames

\* C24: when variable extraction or function extraction fails internally on
\* a text that passed the structural parse, parse_expression aborts with a
\* ParseError: no Expression is returned for such a text.
C24_ExtractionFailClosed ==
    (parsed # None /\ VariableExtractionRaises(text)) => parsed.kind = "FunctionParseError"

(***************************************************************************)
(* Properties of the wall-clock deadline (platforms without SIGALRM)       *)
(***************************************************************************)
WallClockDone(t) == ~has_sigalrm /\ threads[t].pc = "done"

\* C25 as stated: without the alarm, an evaluation that returned within
\* max_execution_time is never reported as a timeout, and one that returned
\* after it is always reported as a timeout, its value or error discarded.
C25_TimeoutIffReturnedLate ==
    \A t \in Threads : WallClockDone(t) =>
        (IsTimeoutError(threads[t].result) <=> threads[t].overran)

\* C25 amended: the time that counts is the one the finally clause reads
\* after the evaluation has returned. The call is reported as a timeout
\* exactly when that reading is more than max_execution_time after the
\* start; so an evaluation that returned late is always a timeout, whatever
\* it returned or raised, and otherwise the result is that of the
\* evaluation.
C25_TimeoutIffCheckedLate ==
    \A t \in Threads : WallClockDone(t) =>
        /\ IsTimeoutError(threads[t].result) <=> threads[t].late
        /\ threads[t].overran => IsTimeoutError(threads[t].result)
        /\ ~threads[t].late =>
                threads[t].result = ApplyHandlers(ExecuteHandlers(threads[t].outcome))

\* C25 witness: without the alarm an evaluation ran past the deadline and
\* raised; the call returned the timeout error, not the error raised.
C25_Witness ==
    /\ WallClockDone("worker")
    /\ threads["worker"].overran
    /\ threads["worker"].outcome.raised = "ZeroDivisionError"
    /\ IsTimeoutError(threads["worker"].result)

\* an evaluation that took exactly the time allowed and was not timed out
C25_WitnessAtDeadline ==
    /\ WallClockDone("main")
    /\ threads["main"].need = max_execution_time
    /\ ~threads["main"].late
    /\ ~IsTimeoutError(threads["main"].result)

(***************************************************************************)
(* Properties of result coercion                                           *)
(***************************************************************************)
\* C26: for every raw value an evaluation can produce, _process_result
\* returns a value and does not raise; a value that cannot be coerced
\* numerically is returned as its string form.
C26_CoerceNeverRaises ==
    call.op = "coerce" =>
        /\ call.processed.raised = "none"
        /\ ~call.result.numeric =>
                call.processed.value.type \in {"str", "list", "Series", "complex"}

(***************************************************************************)
(* Properties of the evaluator on the threads of a process                 *)
(***************************************************************************)
\* the call of thread t has returned and its deadline played no part
DoneInTime(t) == threads[t].pc = "done" /\ ~threads[t].due

\* C27: the outcome of apply_function does not depend on the thread that
\* runs it: the same evaluation, ended in time on the main thread and on a
\* worker thread, is returned with the same status and value.
C27_SameResultOnAnyThread ==
    \A t, u \in Threads :
        (/\ DoneInTime(t)
         /\ DoneInTime(u)
         /\ threads[t].outcome = threads[u].outcome) => threads[t].result = threads[u].result

\* C28: with SIGALRM, once execute_expression has ended (with a value, a
\* runtime error or a timeout) no alarm is armed or waiting to be handled
\* and the handler of SIGALRM is the one installed before the call, so an
\* alarm of one evaluation cannot fire later.
C28_AlarmStateRestored ==
    (/\ has_sigalrm
     /\ threads["main"].pc \in {"handlers", "done"}
     /\ ~Evaluating("worker")) =>
        /\ sigalrm.alarm_at = 0
        /\ ~sigalrm.pending
        /\ sigalrm.handler = threads["main"].old_handler

(***************************************************************************)
(* Properties of the safety validator on the registry's vocabulary         *)
(***************************************************************************)
\* C29: for every registry entry name f, validate_expression_safety reports
\* the expression f(x) with an empty issues list, is_safe true and a
\* risk_level that is not high: the substring scans match inside no
\* registry function name.
C29_RegistryNamesNotFlagged ==
    (safety # None /\ text \in RegistryCallTexts) =>
        /\ safety.issues = <<>>
        /\ safety.is_safe
        /\ safety.risk_level # "high"

(***************************************************************************)
(* Properties of the registry's lookups                                    *)
(***************************************************************************)
\* FunctionLibrary.get_function: KeyError for a name get_all_functions()
\* lacks
get_function(func_name) ==
    IF func_name \notin DOMAIN get_all_functions
    THEN Raised("KeyError", "unsupported function")
    ELSE Returned(get_all_functions[func_name])

\* the categories of get_function_categories() that list the name
CategoriesListing(func_name) ==
    {i \in DOMAIN get_function_categories :
        func_name \in Range(get_function_categories[i].functions)}

\* C30: for every name, is_function_supported(name) is true exactly when
\* the name is in get_supported_function_names(), exactly when
\* get_function(name) returns without KeyError, and exactly when the name
\* is listed under exactly one category; for a name that is not supported
\* FunctionProcessor.get_function_info returns the not-found descriptor
\* (is_available false, no category) and does not raise.
C30_LookupsAgree ==
    call.op = "info" =>
        LET supported == is_function_supported(call.name) IN
        /\ supported <=> call.name \in Range(get_supported_function_names)
        /\ supported <=> get_function(call.name).raised = "none"
        /\ supported <=> Cardinality(CategoriesListing(call.name)) = 1
        /\ ~supported =>
            call.info = [kind |-> "info", name |-> call.name, category |-> "None",
                         is_available |-> FALSE]

\* C30 witness: a name that differs from a registry name only in case is
\* not supported in any of the lookups and gets the not-found descriptor.
C30_Witness ==
    /\ call.op = "info"
    /\ call.name = <<"S","i","n">>
    /\ ~is_function_supported(call.name)
    /\ get_function(call.name).raised = "KeyError"
    /\ CategoriesListing(call.name) = {}
    /\ ~call.info.is_available

====
